---- MODULE Spec2Model ----
(***************************************************************************)
(* A model of relly's storage core: the disk manager, the clock buffer     *)
(* pool, the B+Tree built on slotted pages, and the memcmpable codec.      *)
(*                                                                         *)
(* Byte strings that serve as B+Tree keys and values are kept in a         *)
(* run-length form [pre, fill, n]: the bytes of pre followed by n copies   *)
(* of the byte fill.  Their length and their lexicographic order are       *)
(* computed exactly, so that pages of PAGE_SIZE bytes fill up and split    *)
(* at the pair sizes the code computes.                                    *)
(***************************************************************************)
EXTENDS Integers, Sequences, FiniteSets, TLC

VARIABLES
    buffers,        \* BufferPool.buffers: frame id -> Frame (with its Rc<Buffer>)
    next_victim_id, \* BufferPool.next_victim_id
    page_table,     \* BufferPoolManager.page_table: PageId -> BufferId
    heap_buffer,    \* DiskManager.heap_buffer, one entry per page
    next_page_id,   \* DiskManager.next_page_id
    tree,           \* the BTree handle (meta_page_id) or NoTree
    iter,           \* the caller's open Iter, or NoIter
    held,           \* frames of the handles the caller holds besides iter
    stored,         \* ghost: key -> value of every insert that returned Ok
    last,           \* ghost: the last operation, its arguments and its result
    written,        \* ghost of the pool specification: page id -> bytes last written
    codec,          \* state of the codec specifications
    slotted,        \* the page of the slotted specification and its caller's record
    exec,           \* the executor of the query specification
    nodes,          \* the node of the node specification and its last split
    yielded         \* ghost: the keys the open Iter has returned, in order

vars == <<buffers, next_victim_id, page_table, heap_buffer, next_page_id,
          tree, iter, held, stored, last, written, codec, slotted, exec, nodes,
          yielded>>

-----------------------------------------------------------------------------
(* Bounds of the model *)

PoolSize == 6       \* the largest pool_size given to BufferPool::new
HeapPages == 16     \* pages in the Vec<u8> given to DiskManager::new
MaxInserts == 6     \* BTree::insert calls in one behaviour
MaxHeld == 1        \* handles the caller holds at once besides the iterator
MaxPinOps == 1      \* caller fetches and iterator calls in one behaviour
PoolFrames == 3     \* the largest pool of the pool specification
MaxPages == 3       \* pages the caller of the pool specification creates
MaxHandles == 4     \* handles the caller of the pool specification holds at once
MaxUsage == 2       \* a resident page is fetched while its usage counter is below
MaxElems == 2       \* elements of an encoded tuple
MaxTrees == 3       \* trees created in one store
DiskPages == 3      \* pages in the heap of the disk specification
MaxRows == 4        \* Table::insert calls of the query specification
KeyPad == 9         \* bytes after the first byte of a key of the query specification
NodeKeyBytes == 4   \* first bytes of the keys of the node specification
MidPad == 1010      \* zeros after the first byte of a middle-sized key of the node specification
SlotCapacity == 12  \* bytes of the body of the Slotted of the slotted specification

-----------------------------------------------------------------------------
(* Program constants *)

PAGE_SIZE == 4096
INVALID_PAGE_ID == -1      \* PageId(u64::MAX): the id no page ever gets
NodeHeaderSize == 8        \* size_of::<node::Header>()
LeafHeaderSize == 16       \* size_of::<leaf::Header>()
BranchHeaderSize == 8      \* size_of::<branch::Header>()
MetaHeaderSize == 8        \* size_of::<meta::Header>()
SlottedHeaderSize == 8     \* size_of::<slotted::Header>()
PointerSize == 4           \* size_of::<slotted::Pointer>()
PageIdSize == 8            \* size_of::<PageId>()

NODE_TYPE_LEAF == "LEAF    "
NODE_TYPE_BRANCH == "BRANCH  "

NoTree == [none |-> TRUE]
NoIter == [none |-> TRUE]
None == [none |-> TRUE]
Panic == [panic |-> TRUE]    \* a failed assert!, expect, unwrap or index

\* `let v = ..;` followed by the code F that uses v: v is bound once.
Let(v, F(_)) == F(v)

Min(a, b) == IF a <= b THEN a ELSE b
Max(a, b) == IF a >= b THEN a ELSE b

-----------------------------------------------------------------------------
(* Byte strings in run-length form *)

Bytes(pre, fill, n) == [pre |-> pre, fill |-> fill, n |-> n]

BytesLen(s) == Len(s.pre) + s.n

ByteAt(s, i) == IF i <= Len(s.pre) THEN s.pre[i] ELSE s.fill

\* <[u8] as Ord>::cmp: lexicographic, a proper prefix is Less.
BytesCmp(a, b) ==
    LET m == Min(BytesLen(a), BytesLen(b))
        lim == Min(m, Max(Len(a.pre), Len(b.pre)) + 1)
        D == {i \in 1..lim : ByteAt(a, i) # ByteAt(b, i)}
    IN  IF D = {}
        THEN IF BytesLen(a) < BytesLen(b) THEN "Less"
             ELSE IF BytesLen(a) > BytesLen(b) THEN "Greater"
             ELSE "Equal"
        ELSE LET i == CHOOSE j \in D : \A k \in D : j <= k
             IN  IF ByteAt(a, i) < ByteAt(b, i) THEN "Less" ELSE "Greater"

\* bincode's varint length prefix: one byte below 251, else a marker and a u16/u32.
VarintLen(n) == IF n < 251 THEN 1 ELSE IF n < 65536 THEN 3 ELSE 5

\* Pair::to_bytes: the key and the value, each behind its length prefix.
PairBytesLen(keyLen, valueLen) ==
    VarintLen(keyLen) + keyLen + VarintLen(valueLen) + valueLen

\* A leaf pair, and a branch pair whose value is the 8 bytes of a PageId.
LeafPair(key, value) ==
    [key |-> key, value |-> value,
     len |-> PairBytesLen(BytesLen(key), BytesLen(value))]

BranchPair(key, page_id) ==
    [key |-> key, value |-> page_id,
     len |-> PairBytesLen(BytesLen(key), PageIdSize)]

-----------------------------------------------------------------------------
(* bsearch.rs *)

\* Mutant: the half below mid is taken without the element below mid.
RECURSIVE bsearch_loop_skips_below_mid(_, _, _, _)
bsearch_loop_skips_below_mid(f, left, right, size) ==
    IF left < right
    THEN LET mid == left + size \div 2
             cmp == f[mid]
         IN  IF cmp = "Less"
             THEN bsearch_loop_skips_below_mid(f, mid + 1, right, right - (mid + 1))
             ELSE IF cmp = "Greater"
             THEN bsearch_loop_skips_below_mid(f, left, mid - 1, mid - 1 - left)
             ELSE [ok |-> TRUE, idx |-> mid]
    ELSE [ok |-> FALSE, idx |-> left]

RECURSIVE bsearch_loop(_, _, _, _)
bsearch_loop(f, left, right, size) ==
    IF left < right
    THEN LET mid == left + size \div 2
             cmp == f[mid]
         IN  IF cmp = "Less" THEN bsearch_loop(f, mid + 1, right, right - (mid + 1))
             ELSE IF cmp = "Greater" THEN bsearch_loop(f, left, mid, mid - left)
             ELSE [ok |-> TRUE, idx |-> mid]
    ELSE [ok |-> FALSE, idx |-> left]

\* f is the closure, given as the function slot index -> Ordering.
binary_search_by(size, f) == bsearch_loop(f, 0, size, size)

-----------------------------------------------------------------------------
(* slotted.rs, on the sequence of slots in logical order; a slot carries   *)
(* its content and the byte length len of that content.                    *)

RECURSIVE SumLen(_)
SumLen(slots) == IF slots = <<>> THEN 0 ELSE Head(slots).len + SumLen(Tail(slots))

\* header.free_space_offset - pointers_size()
slotted_free_space(capacity, slots) ==
    (capacity - SumLen(slots)) - PointerSize * Len(slots)

\* Slotted::insert followed by the copy of the slot's bytes; None when it does not fit.
slotted_insert(capacity, slots, index, slot) ==
    IF slotted_free_space(capacity, slots) < PointerSize + slot.len
    THEN None
    ELSE [slots |-> SubSeq(slots, 1, index) \o <<slot>> \o SubSeq(slots, index + 1, Len(slots))]

\* Slotted::remove
slotted_remove(slots, index) ==
    SubSeq(slots, 1, index) \o SubSeq(slots, index + 2, Len(slots))

-----------------------------------------------------------------------------
(* slotted.rs, byte by byte.  A Slotted is [num_slots, free_space_offset,  *)
(* body]: the two fields of the header and the bytes after it.  The        *)
(* pointers are the first PointerSize * num_slots bytes of body, two u16   *)
(* in little-endian order each; offsets count from 0 as in the code, the   *)
(* bytes of body from 1.  An index or a range out of bounds is a Panic.    *)

\* Slotted::pointers_size
pointers_size(s) == PointerSize * s.num_slots

\* Slotted::free_space
Slotted_free_space(s) == s.free_space_offset - pointers_size(s)

\* A u16 at the 0-based position at of body
u16_at(body, at) == body[at + 1] + 256 * body[at + 2]

\* self.pointers()[index]
pointer_at(s, index) ==
    [offset |-> u16_at(s.body, PointerSize * index),
     len |-> u16_at(s.body, PointerSize * index + 2)]

\* The assignment of a u16 at the 0-based position at of body
set_u16(body, at, v) ==
    [body EXCEPT ![at + 1] = v % 256, ![at + 2] = (v \div 256) % 256]

\* <[T]>::copy_within(start..end, dest) on bytes
copy_within(body, start, end, dest) ==
    IF start > end \/ end > Len(body) \/ dest + (end - start) > Len(body)
    THEN Panic
    ELSE [j \in 1..Len(body) |->
            IF j - 1 >= dest /\ j - 1 < dest + (end - start)
            THEN body[start + (j - 1 - dest) + 1]
            ELSE body[j]]

\* Slotted::initialize
Slotted_initialize(s) ==
    [s EXCEPT !.num_slots = 0, !.free_space_offset = Len(s.body)]

\* Slotted::insert: None when the slot does not fit, else the Slotted after it
\* Mutant: an insert that would use the last free byte is refused.
Slotted_insert_needs_spare_byte(s, index, len) ==
    IF Slotted_free_space(s) <= PointerSize + len THEN None
    ELSE IF index > s.num_slots THEN Panic
    ELSE LET num_slots_orig == s.num_slots
             free_space_offset == s.free_space_offset - len
             moved == copy_within(s.body, PointerSize * index,
                                  PointerSize * num_slots_orig,
                                  PointerSize * (index + 1))
         IN  [num_slots |-> num_slots_orig + 1,
              free_space_offset |-> free_space_offset,
              body |-> set_u16(set_u16(moved, PointerSize * index, free_space_offset),
                               PointerSize * index + 2, len)]

Slotted_insert(s, index, len) ==
    IF Slotted_free_space(s) < PointerSize + len THEN None
    ELSE IF index > s.num_slots THEN Panic
    ELSE LET num_slots_orig == s.num_slots
             free_space_offset == s.free_space_offset - len
             moved == copy_within(s.body, PointerSize * index,
                                  PointerSize * num_slots_orig,
                                  PointerSize * (index + 1))
         IN  [num_slots |-> num_slots_orig + 1,
              free_space_offset |-> free_space_offset,
              body |-> set_u16(set_u16(moved, PointerSize * index, free_space_offset),
                               PointerSize * index + 2, len)]

\* The loop of Slotted::resize over the pointers from the k-th on
RECURSIVE resize_pointers(_, _, _, _, _)
resize_pointers(body, k, num_slots, offset_orig, len_incr) ==
    IF k >= num_slots THEN body
    ELSE LET offset == u16_at(body, PointerSize * k)
         IN  resize_pointers(
                 IF offset <= offset_orig
                 THEN set_u16(body, PointerSize * k, (offset - len_incr) % 65536)
                 ELSE body,
                 k + 1, num_slots, offset_orig, len_incr)

\* Slotted::resize: None when the growth does not fit, else the Slotted after it
Slotted_resize(s, index, len_new) ==
    IF index >= s.num_slots THEN Panic
    ELSE
    LET len_orig == pointer_at(s, index).len
        len_incr == len_new - len_orig
    IN  IF len_incr = 0 THEN s
        ELSE IF len_incr > Slotted_free_space(s) THEN None
        ELSE
        LET free_space_offset == s.free_space_offset
            offset_orig == pointer_at(s, index).offset
            free_space_offset_new == free_space_offset - len_incr
            shifted == copy_within(s.body, free_space_offset, offset_orig,
                                   free_space_offset_new)
        IN  IF shifted = Panic THEN Panic
            ELSE Let(resize_pointers(shifted, 0, s.num_slots, offset_orig, len_incr),
                     LAMBDA pointers :
                 Let(set_u16(pointers, PointerSize * index + 2, len_new),
                     LAMBDA resized :
                 [s EXCEPT !.free_space_offset = free_space_offset_new,
                           !.body = IF len_new = 0
                                    THEN set_u16(resized, PointerSize * index,
                                                 free_space_offset_new)
                                    ELSE resized]))

\* Slotted::remove
\* Mutant: the slot is not resized to zero before its pointer is dropped.
Slotted_remove_keeps_data(s, index) ==
    Let(s, LAMBDA r :
    IF r = Panic THEN Panic
    ELSE [r EXCEPT !.num_slots = @ - 1,
                   !.body = copy_within(r.body, PointerSize * (index + 1),
                                        pointers_size(r), PointerSize * index)])

Slotted_remove(s, index) ==
    Let(Slotted_resize(s, index, 0), LAMBDA r :
    IF r = Panic THEN Panic
    ELSE [r EXCEPT !.num_slots = @ - 1,
                   !.body = copy_within(r.body, PointerSize * (index + 1),
                                        pointers_size(r), PointerSize * index)])

\* Index::index: the bytes of the slot
Slotted_index(s, index) ==
    IF index >= s.num_slots THEN Panic
    ELSE Let(pointer_at(s, index), LAMBDA pointer :
         IF pointer.offset + pointer.len > Len(s.body) THEN Panic
         ELSE [bytes |-> SubSeq(s.body, pointer.offset + 1,
                                pointer.offset + pointer.len)])

\* slotted[index].copy_from_slice(buf)
Slotted_write(s, index, buf) ==
    Let(pointer_at(s, index), LAMBDA pointer :
    IF pointer.len # Len(buf) \/ pointer.offset + pointer.len > Len(s.body)
    THEN Panic
    ELSE [s EXCEPT !.body = [j \in 1..Len(s.body) |->
                                IF j > pointer.offset /\ j <= pointer.offset + pointer.len
                                THEN buf[j - pointer.offset]
                                ELSE s.body[j]]])

-----------------------------------------------------------------------------
(* Pages.  A page is all zeros, a meta page, a leaf node or a branch node. *)

ZeroPage == [zero |-> TRUE]

MetaPage(root_page_id) == [root_page_id |-> root_page_id]

\* meta::Meta::new over the bytes of a page: the header of a zeroed page reads 0.
meta_root_page_id(page) == IF page = ZeroPage THEN 0 ELSE page.root_page_id

LeafCapacity == PAGE_SIZE - NodeHeaderSize - LeafHeaderSize - SlottedHeaderSize
BranchCapacity == PAGE_SIZE - NodeHeaderSize - BranchHeaderSize - SlottedHeaderSize

\* Node::initialize_as_leaf and Leaf::initialize
leaf_initialize ==
    [node_type |-> NODE_TYPE_LEAF, prev_page_id |-> INVALID_PAGE_ID,
     next_page_id |-> INVALID_PAGE_ID, slots |-> <<>>]

num_pairs(node) == Len(node.slots)

\* Mutant: a search that never reports an exact match.
search_slot_id_never_ok(node, key) ==
    [ok |-> FALSE,
     idx |-> binary_search_by(num_pairs(node),
                 [slot_id \in 0..(num_pairs(node) - 1) |->
                     BytesCmp(node.slots[slot_id + 1].key, key)]).idx]

\* Leaf::search_slot_id and Branch::search_slot_id
search_slot_id(node, key) ==
    binary_search_by(num_pairs(node),
                     [slot_id \in 0..(num_pairs(node) - 1) |->
                         BytesCmp(node.slots[slot_id + 1].key, key)])

leaf_max_pair_size == LeafCapacity \div 2 - PointerSize
branch_max_pair_size == BranchCapacity \div 2 - PointerSize

\* Leaf::insert: [node] on success, None when the slotted body has no room,
\* Panic when the assertion on max_pair_size fails.
\* Mutant: the insert also clears the link to the next leaf.
leaf_insert_cuts_next_link(leaf, slot_id, key, value) ==
    LET pair == LeafPair(key, value) IN
    IF pair.len > leaf_max_pair_size THEN Panic
    ELSE Let(slotted_insert(LeafCapacity, leaf.slots, slot_id, pair), LAMBDA r :
         IF r = None THEN None ELSE [node |-> [leaf EXCEPT !.slots = r.slots,
                                                 !.next_page_id = INVALID_PAGE_ID]])

leaf_insert(leaf, slot_id, key, value) ==
    LET pair == LeafPair(key, value) IN
    IF pair.len > leaf_max_pair_size THEN Panic
    ELSE Let(slotted_insert(LeafCapacity, leaf.slots, slot_id, pair), LAMBDA r :
         IF r = None THEN None ELSE [node |-> [leaf EXCEPT !.slots = r.slots]])

\* Mutant: a leaf counts as half full as soon as it holds a pair.
leaf_is_half_full_when_not_empty(leaf) == num_pairs(leaf) > 0

leaf_is_half_full(leaf) ==
    2 * slotted_free_space(LeafCapacity, leaf.slots) < LeafCapacity

\* Leaf::transfer: [self, dest], or Panic when self is empty or dest has no room.
leaf_transfer(self, dest) ==
    IF num_pairs(self) = 0 THEN Panic
    ELSE Let(slotted_insert(LeafCapacity, dest.slots, num_pairs(dest), self.slots[1]),
             LAMBDA r :
         IF r = None THEN Panic
         ELSE [self |-> [self EXCEPT !.slots = slotted_remove(self.slots, 0)],
               dest |-> [dest EXCEPT !.slots = r.slots]])

\* The inner `while !new_leaf.is_half_full() { self.transfer(new_leaf) }`.
RECURSIVE leaf_transfer_until_half_full(_, _)
leaf_transfer_until_half_full(self, new_leaf) ==
    IF leaf_is_half_full(new_leaf) THEN [self |-> self, dest |-> new_leaf]
    ELSE Let(leaf_transfer(self, new_leaf), LAMBDA t :
         IF t = Panic THEN Panic
         ELSE leaf_transfer_until_half_full(t.self, t.dest))

\* Mutant: once the new leaf is half full the new pair becomes the first of self.
RECURSIVE leaf_split_loop_inserts_first(_, _, _, _)
leaf_split_loop_inserts_first(self, new_leaf, new_key, new_value) ==
    IF leaf_is_half_full(new_leaf)
    THEN Let(leaf_insert(self, 0, new_key, new_value), LAMBDA i :
         IF i = None \/ i = Panic THEN Panic
         ELSE [self |-> i.node, dest |-> new_leaf])
    ELSE IF num_pairs(self) = 0 THEN Panic
    ELSE IF BytesCmp(self.slots[1].key, new_key) = "Less"
    THEN Let(leaf_transfer(self, new_leaf), LAMBDA t :
         IF t = Panic THEN Panic
         ELSE leaf_split_loop_inserts_first(t.self, t.dest, new_key, new_value))
    ELSE Let(leaf_insert(new_leaf, num_pairs(new_leaf), new_key, new_value), LAMBDA i :
         IF i = None \/ i = Panic THEN Panic
         ELSE leaf_transfer_until_half_full(self, i.node))

\* The loop of Leaf::split_insert: [self, dest] or Panic.
RECURSIVE leaf_split_loop(_, _, _, _)
leaf_split_loop(self, new_leaf, new_key, new_value) ==
    IF leaf_is_half_full(new_leaf)
    THEN Let(search_slot_id(self, new_key), LAMBDA r :
         IF r.ok THEN Panic
         ELSE Let(leaf_insert(self, r.idx, new_key, new_value), LAMBDA i :
              IF i = None \/ i = Panic THEN Panic
              ELSE [self |-> i.node, dest |-> new_leaf]))
    ELSE IF num_pairs(self) = 0 THEN Panic
    ELSE IF BytesCmp(self.slots[1].key, new_key) = "Less"
    THEN Let(leaf_transfer(self, new_leaf), LAMBDA t :
         IF t = Panic THEN Panic
         ELSE leaf_split_loop(t.self, t.dest, new_key, new_value))
    ELSE Let(leaf_insert(new_leaf, num_pairs(new_leaf), new_key, new_value), LAMBDA i :
         IF i = None \/ i = Panic THEN Panic
         ELSE leaf_transfer_until_half_full(self, i.node))

\* Mutant: promotes the key just inserted instead of the first key left in self.
leaf_split_insert_promotes_new_key(self, new_leaf, new_key, new_value) ==
    Let(leaf_split_loop(self, [new_leaf EXCEPT !.prev_page_id = INVALID_PAGE_ID,
                                               !.next_page_id = INVALID_PAGE_ID,
                                               !.slots = <<>>],
                        new_key, new_value), LAMBDA r :
        IF r = Panic THEN Panic
        ELSE IF num_pairs(r.self) = 0 THEN Panic
        ELSE [self |-> r.self, dest |-> r.dest, key |-> new_key])

\* Leaf::split_insert: [self, dest, key] with key the first key left in self.
leaf_split_insert(self, new_leaf, new_key, new_value) ==
    Let(leaf_split_loop(self, [new_leaf EXCEPT !.prev_page_id = INVALID_PAGE_ID,
                                               !.next_page_id = INVALID_PAGE_ID,
                                               !.slots = <<>>],
                        new_key, new_value), LAMBDA r :
        IF r = Panic THEN Panic
        ELSE IF num_pairs(r.self) = 0 THEN Panic
        ELSE [self |-> r.self, dest |-> r.dest, key |-> r.self.slots[1].key])

-----------------------------------------------------------------------------
(* btree/branch.rs *)

\* Mutant: a key equal to a separator is routed to the child of its slot.
search_child_idx_of_slot(branch, key) ==
    Let(search_slot_id(branch, key), LAMBDA r : r.idx)

\* Branch::search_child_idx
search_child_idx(branch, key) ==
    Let(search_slot_id(branch, key), LAMBDA r :
        IF r.ok THEN r.idx + 1 ELSE r.idx)

\* Branch::child_at
child_at(branch, child_idx) ==
    IF child_idx = num_pairs(branch) THEN branch.right_child
    ELSE branch.slots[child_idx + 1].value

\* Branch::search_child
search_child(branch, key) == child_at(branch, search_child_idx(branch, key))

\* Branch::insert
branch_insert(branch, slot_id, key, page_id) ==
    LET pair == BranchPair(key, page_id) IN
    IF pair.len > branch_max_pair_size THEN Panic
    ELSE Let(slotted_insert(BranchCapacity, branch.slots, slot_id, pair), LAMBDA r :
         IF r = None THEN None ELSE [node |-> [branch EXCEPT !.slots = r.slots]])

\* Mutant: the two children change places.
branch_initialize_swaps_children(key, left_child, right_child) ==
    Let(branch_insert([node_type |-> NODE_TYPE_BRANCH, right_child |-> 0,
                       slots |-> <<>>], 0, key, right_child), LAMBDA r :
        IF r = None \/ r = Panic THEN Panic
        ELSE [node |-> [r.node EXCEPT !.right_child = left_child]])

\* Node::initialize_as_branch and Branch::initialize
branch_initialize(key, left_child, right_child) ==
    Let(branch_insert([node_type |-> NODE_TYPE_BRANCH, right_child |-> 0,
                       slots |-> <<>>], 0, key, left_child), LAMBDA r :
        IF r = None \/ r = Panic THEN Panic
        ELSE [node |-> [r.node EXCEPT !.right_child = right_child]])

\* Mutant: a branch counts as half full as soon as it holds a pair.
branch_is_half_full_when_not_empty(branch) == num_pairs(branch) > 0

branch_is_half_full(branch) ==
    2 * slotted_free_space(BranchCapacity, branch.slots) < BranchCapacity

\* Branch::transfer
branch_transfer(self, dest) ==
    IF num_pairs(self) = 0 THEN Panic
    ELSE Let(slotted_insert(BranchCapacity, dest.slots, num_pairs(dest), self.slots[1]),
             LAMBDA r :
         IF r = None THEN Panic
         ELSE [self |-> [self EXCEPT !.slots = slotted_remove(self.slots, 0)],
               dest |-> [dest EXCEPT !.slots = r.slots]])

RECURSIVE branch_transfer_until_half_full(_, _)
branch_transfer_until_half_full(self, new_branch) ==
    IF branch_is_half_full(new_branch) THEN [self |-> self, dest |-> new_branch]
    ELSE Let(branch_transfer(self, new_branch), LAMBDA t :
         IF t = Panic THEN Panic
         ELSE branch_transfer_until_half_full(t.self, t.dest))

\* The loop of Branch::split_insert
RECURSIVE branch_split_loop(_, _, _, _)
branch_split_loop(self, new_branch, new_key, new_page_id) ==
    IF branch_is_half_full(new_branch)
    THEN Let(search_slot_id(self, new_key), LAMBDA r :
         IF r.ok THEN Panic
         ELSE Let(branch_insert(self, r.idx, new_key, new_page_id), LAMBDA i :
              IF i = None \/ i = Panic THEN Panic
              ELSE [self |-> i.node, dest |-> new_branch]))
    ELSE IF num_pairs(self) = 0 THEN Panic
    ELSE IF BytesCmp(self.slots[1].key, new_key) = "Less"
    THEN Let(branch_transfer(self, new_branch), LAMBDA t :
         IF t = Panic THEN Panic
         ELSE branch_split_loop(t.self, t.dest, new_key, new_page_id))
    ELSE Let(branch_insert(new_branch, num_pairs(new_branch), new_key, new_page_id),
             LAMBDA i :
         IF i = None \/ i = Panic THEN Panic
         ELSE branch_transfer_until_half_full(self, i.node))

\* Mutant: the last pair is popped and its page is dropped.
fill_right_child_drops_page(branch) ==
    IF num_pairs(branch) = 0 THEN Panic
    ELSE LET last_id == num_pairs(branch) - 1
             pair == branch.slots[last_id + 1]
         IN  [node |-> [branch EXCEPT !.slots = slotted_remove(branch.slots, last_id)],
              key |-> pair.key]

\* Branch::fill_right_child: [node, key], the last pair popped into right_child.
fill_right_child(branch) ==
    IF num_pairs(branch) = 0 THEN Panic
    ELSE LET last_id == num_pairs(branch) - 1
             pair == branch.slots[last_id + 1]
         IN  [node |-> [branch EXCEPT !.slots = slotted_remove(branch.slots, last_id),
                                      !.right_child = pair.value],
              key |-> pair.key]

\* Branch::split_insert: [self, dest, key] with key the promoted key.
branch_split_insert(self, new_branch, new_key, new_page_id) ==
    Let(branch_split_loop(self, [new_branch EXCEPT !.slots = <<>>], new_key, new_page_id),
        LAMBDA r :
        IF r = Panic THEN Panic
        ELSE Let(fill_right_child(r.dest), LAMBDA f :
             IF f = Panic THEN Panic
             ELSE [self |-> r.self, dest |-> f.node, key |-> f.key]))

-----------------------------------------------------------------------------
(* disk.rs *)

\* DiskManager::read_page_data: the slice of heap_buffer, a panic outside it.
read_page_data(heap, page_id) ==
    IF page_id \in DOMAIN heap THEN [data |-> heap[page_id]] ELSE Panic

\* Mutant: the offset of the write is that of the page after page_id.
write_page_data_one_page_on(heap, page_id, data) ==
    IF page_id + 1 \in DOMAIN heap
    THEN [heap |-> [heap EXCEPT ![page_id + 1] = data]] ELSE Panic

\* DiskManager::write_page_data
write_page_data(heap, page_id, data) ==
    IF page_id \in DOMAIN heap THEN [heap |-> [heap EXCEPT ![page_id] = data]] ELSE Panic

\* DiskManager::allocate_page: [page_id, next_page_id]
allocate_page(next) == [page_id |-> next, next_page_id |-> next + 1]

-----------------------------------------------------------------------------
(* memcmpable.rs and tuple.rs.  A byte string is a sequence of numbers in  *)
(* 0..255; a slice that is indexed beyond its end is a Panic.              *)

ESCAPE_LENGTH == 9

\* memcmpable::encoded_size
encoded_size(len) ==
    ((len + (ESCAPE_LENGTH - 1)) \div (ESCAPE_LENGTH - 1)) * ESCAPE_LENGTH

Zeros(n) == [i \in 1..n |-> 0]

Drop(src, n) == SubSeq(src, n + 1, Len(src))

\* Mutant: the last chunk is marked with its padding instead of its length.
RECURSIVE memcmpable_encode_marks_padding(_, _)
memcmpable_encode_marks_padding(src, dst) ==
    LET copy_len == Min(ESCAPE_LENGTH - 1, Len(src))
        dst1 == dst \o SubSeq(src, 1, copy_len)
        src1 == Drop(src, copy_len)
    IN  IF src1 = <<>>
        THEN LET pad_size == ESCAPE_LENGTH - 1 - copy_len
             IN  (dst1 \o Zeros(pad_size)) \o <<pad_size>>
        ELSE memcmpable_encode_marks_padding(src1, dst1 \o <<ESCAPE_LENGTH>>)

\* memcmpable::encode: dst with the encoding of src appended
RECURSIVE memcmpable_encode(_, _)
memcmpable_encode(src, dst) ==
    LET copy_len == Min(ESCAPE_LENGTH - 1, Len(src))
        dst1 == dst \o SubSeq(src, 1, copy_len)
        src1 == Drop(src, copy_len)
    IN  IF src1 = <<>>
        THEN LET pad_size == ESCAPE_LENGTH - 1 - copy_len
             IN  (dst1 \o Zeros(pad_size)) \o <<copy_len>>
        ELSE memcmpable_encode(src1, dst1 \o <<ESCAPE_LENGTH>>)

\* Mutant: a chunk marked ESCAPE_LENGTH is copied with its marker byte.
RECURSIVE memcmpable_decode_without_min(_, _)
memcmpable_decode_without_min(src, dst) ==
    IF Len(src) < ESCAPE_LENGTH THEN Panic
    ELSE LET extra == src[ESCAPE_LENGTH]
             dst1 == dst \o SubSeq(src, 1, extra)
             src1 == Drop(src, ESCAPE_LENGTH)
         IN  IF extra < ESCAPE_LENGTH THEN [src |-> src1, dst |-> dst1]
             ELSE memcmpable_decode_without_min(src1, dst1)

\* memcmpable::decode: [src, dst], the rest of the input and dst with the
\* decoded string appended; Panic when src[ESCAPE_LENGTH - 1] is out of range.
RECURSIVE memcmpable_decode(_, _)
memcmpable_decode(src, dst) ==
    IF Len(src) < ESCAPE_LENGTH THEN Panic
    ELSE LET extra == src[ESCAPE_LENGTH]
             len == Min(ESCAPE_LENGTH - 1, extra)
             dst1 == dst \o SubSeq(src, 1, len)
             src1 == Drop(src, ESCAPE_LENGTH)
         IN  IF extra < ESCAPE_LENGTH THEN [src |-> src1, dst |-> dst1]
             ELSE memcmpable_decode(src1, dst1)

\* tuple::encode: bytes with the encoding of every element appended
RECURSIVE tuple_encode(_, _)
tuple_encode(elems, bytes) ==
    IF elems = <<>> THEN bytes
    ELSE tuple_encode(Tail(elems), memcmpable_encode(Head(elems), bytes))

\* The loop of tuple::decode over rest.
RECURSIVE tuple_decode_loop(_, _)
tuple_decode_loop(rest, elems) ==
    IF rest = <<>> THEN [elems |-> elems]
    ELSE Let(memcmpable_decode(rest, <<>>), LAMBDA d :
         IF d = Panic THEN Panic
         ELSE tuple_decode_loop(d.src, Append(elems, d.dst)))

\* tuple::decode: [elems], elems with the decoded elements appended, or Panic
tuple_decode(bytes, elems) == tuple_decode_loop(bytes, elems)

-----------------------------------------------------------------------------
(* buffer.rs.  The operations take and return the buffer pool manager as   *)
(* the record bm == [buffers, next_victim_id, page_table, heap_buffer,     *)
(* next_page_id, peak].  A frame is [usage_count, rc, buffer]: rc counts   *)
(* the Rc<Buffer> clones outside the pool, so Rc::get_mut succeeds exactly *)
(* when rc = 0.  A handle is the id of the frame whose buffer it shares.   *)
(* peak is a ghost: the largest number of frames pinned at once.           *)

\* Buffer::default
BufferDefault == [page_id |-> INVALID_PAGE_ID, page |-> ZeroPage, is_dirty |-> FALSE]

\* Frame::default
FrameDefault == [usage_count |-> 0, rc |-> 0, buffer |-> BufferDefault]

pool_size_of(frames) == Cardinality(DOMAIN frames)

\* BufferPool::increment_id
increment_id(frames, buffer_id) == (buffer_id + 1) % pool_size_of(frames)

\* Mutant: the clock hand decrements the usage counter of a pinned frame too.
RECURSIVE evict_loop_ignores_pins(_, _, _)
evict_loop_ignores_pins(frames, nv, consecutive_pinned) ==
    IF frames[nv].usage_count = 0
    THEN [buffers |-> frames, next_victim_id |-> nv, found |-> TRUE, victim |-> nv]
    ELSE evict_loop_ignores_pins([frames EXCEPT ![nv].usage_count = @ - 1],
                                 increment_id(frames, nv), 0)

\* Mutant: the usage counter of a pinned frame is decremented as well.
RECURSIVE evict_loop_ages_pinned(_, _, _)
evict_loop_ages_pinned(frames, nv, consecutive_pinned) ==
    IF frames[nv].usage_count = 0
    THEN [buffers |-> frames, next_victim_id |-> nv, found |-> TRUE, victim |-> nv]
    ELSE IF frames[nv].rc = 0
    THEN evict_loop_ages_pinned([frames EXCEPT ![nv].usage_count = @ - 1],
                                increment_id(frames, nv), 0)
    ELSE IF consecutive_pinned + 1 >= pool_size_of(frames)
    THEN [buffers |-> frames, next_victim_id |-> nv, found |-> FALSE, victim |-> nv]
    ELSE evict_loop_ages_pinned([frames EXCEPT ![nv].usage_count = @ - 1],
                                increment_id(frames, nv), consecutive_pinned + 1)

\* Mutant: consecutive_pinned is not reset when the hand passes an unpinned frame.
RECURSIVE evict_loop_never_resets(_, _, _)
evict_loop_never_resets(frames, nv, consecutive_pinned) ==
    IF frames[nv].usage_count = 0
    THEN [buffers |-> frames, next_victim_id |-> nv, found |-> TRUE, victim |-> nv]
    ELSE IF frames[nv].rc = 0
    THEN evict_loop_never_resets([frames EXCEPT ![nv].usage_count = @ - 1],
                                 increment_id(frames, nv), consecutive_pinned)
    ELSE IF consecutive_pinned + 1 >= pool_size_of(frames)
    THEN [buffers |-> frames, next_victim_id |-> nv, found |-> FALSE, victim |-> nv]
    ELSE evict_loop_never_resets(frames, increment_id(frames, nv), consecutive_pinned + 1)

\* The loop of BufferPool::evict: [buffers, next_victim_id, found, victim].
RECURSIVE evict_loop(_, _, _)
evict_loop(frames, nv, consecutive_pinned) ==
    IF frames[nv].usage_count = 0
    THEN [buffers |-> frames, next_victim_id |-> nv, found |-> TRUE, victim |-> nv]
    ELSE IF frames[nv].rc = 0
    THEN evict_loop([frames EXCEPT ![nv].usage_count = @ - 1],
                    increment_id(frames, nv), 0)
    ELSE IF consecutive_pinned + 1 >= pool_size_of(frames)
    THEN [buffers |-> frames, next_victim_id |-> nv, found |-> FALSE, victim |-> nv]
    ELSE evict_loop(frames, increment_id(frames, nv), consecutive_pinned + 1)

\* BufferPool::evict
evict(frames, nv) == evict_loop(frames, nv, 0)

\* Mutant: pinned frames are passed without being counted.
evict_step_never_gives_up(frames, nv, consecutive_pinned) ==
    IF frames[nv].usage_count = 0
    THEN [buffers |-> frames, next_victim_id |-> nv,
          consecutive_pinned |-> consecutive_pinned, done |-> TRUE, found |-> TRUE]
    ELSE IF frames[nv].rc = 0
    THEN [buffers |-> [frames EXCEPT ![nv].usage_count = @ - 1],
          next_victim_id |-> increment_id(frames, nv),
          consecutive_pinned |-> 0, done |-> FALSE, found |-> FALSE]
    ELSE [buffers |-> frames, next_victim_id |-> increment_id(frames, nv),
          consecutive_pinned |-> consecutive_pinned, done |-> FALSE, found |-> FALSE]

\* One iteration of the loop of BufferPool::evict:
\* [buffers, next_victim_id, consecutive_pinned, done, found]
evict_step(frames, nv, consecutive_pinned) ==
    IF frames[nv].usage_count = 0
    THEN [buffers |-> frames, next_victim_id |-> nv,
          consecutive_pinned |-> consecutive_pinned, done |-> TRUE, found |-> TRUE]
    ELSE IF frames[nv].rc = 0
    THEN [buffers |-> [frames EXCEPT ![nv].usage_count = @ - 1],
          next_victim_id |-> increment_id(frames, nv),
          consecutive_pinned |-> 0, done |-> FALSE, found |-> FALSE]
    ELSE IF consecutive_pinned + 1 >= pool_size_of(frames)
    THEN [buffers |-> frames, next_victim_id |-> nv,
          consecutive_pinned |-> consecutive_pinned + 1, done |-> TRUE, found |-> FALSE]
    ELSE [buffers |-> frames, next_victim_id |-> increment_id(frames, nv),
          consecutive_pinned |-> consecutive_pinned + 1, done |-> FALSE, found |-> FALSE]

NumPinned(frames) == Cardinality({f \in DOMAIN frames : frames[f].rc > 0})

\* Mutant: a handle that is never released.
rc_drop_leaks(bm, buffer_id) == bm

\* Rc::clone of the frame's buffer, handed to the caller.
rc_clone(bm, buffer_id) ==
    Let([bm.buffers EXCEPT ![buffer_id].rc = @ + 1], LAMBDA b :
        [bm EXCEPT !.buffers = b, !.peak = Max(@, NumPinned(b))])

\* Drop of a handle.
rc_drop(bm, buffer_id) == [bm EXCEPT !.buffers[buffer_id].rc = @ - 1]

\* Mutant: the entry of the evicted page stays in the page table.
page_table_replace_keeps_evicted(pt, evict_page_id, page_id, buffer_id) ==
    [p \in (DOMAIN pt) \cup {page_id} |->
        IF p = page_id THEN buffer_id ELSE pt[p]]

\* HashMap::remove then HashMap::insert on the page table.
page_table_replace(pt, evict_page_id, page_id, buffer_id) ==
    [p \in ((DOMAIN pt) \ {evict_page_id}) \cup {page_id} |->
        IF p = page_id THEN buffer_id ELSE pt[p]]

\* Mutant: the evictee is dropped without being written back.
write_back_skipped(heap, buffer) == [heap |-> heap]

\* The write of a dirty evictee in fetch_page and create_page: [heap] or Panic.
write_back(heap, buffer) ==
    IF buffer.is_dirty THEN write_page_data(heap, buffer.page_id, buffer.page)
    ELSE [heap |-> heap]

Fail(bm, err) == [bm |-> bm, err |-> err, buffer |-> 0]

\* Mutant: a resident page is read again from the disk into its frame.
fetch_page_reads_again(bm, page_id) ==
    IF page_id \in DOMAIN bm.page_table
    THEN LET buffer_id == bm.page_table[page_id]
             bm1 == [bm EXCEPT !.buffers[buffer_id].usage_count = @ + 1,
                               !.buffers[buffer_id].buffer.page = bm.heap_buffer[page_id]]
         IN  [bm |-> rc_clone(bm1, buffer_id), err |-> "Ok", buffer |-> buffer_id]
    ELSE
    Let(evict(bm.buffers, bm.next_victim_id), LAMBDA e :
    Let([bm EXCEPT !.buffers = e.buffers, !.next_victim_id = e.next_victim_id], LAMBDA bm1 :
        IF ~e.found THEN Fail(bm1, "NoFreeBuffer")
        ELSE
        LET buffer_id == e.victim
            frame == bm1.buffers[buffer_id]
            evict_page_id == frame.buffer.page_id
        IN  IF frame.rc # 0 THEN Fail(bm1, "Panic")     \* Rc::get_mut(..).unwrap()
            ELSE
            Let(write_back(bm1.heap_buffer, frame.buffer), LAMBDA w :
                IF w = Panic THEN Fail(bm1, "Panic")
                ELSE
                Let(read_page_data(w.heap, page_id), LAMBDA r :
                    IF r = Panic THEN Fail([bm1 EXCEPT !.heap_buffer = w.heap], "Panic")
                    ELSE
                    Let([bm1 EXCEPT
                           !.heap_buffer = w.heap,
                           !.buffers[buffer_id] =
                               [usage_count |-> 1, rc |-> 0,
                                buffer |-> [page_id |-> page_id, page |-> r.data,
                                            is_dirty |-> FALSE]],
                           !.page_table =
                               page_table_replace(@, evict_page_id, page_id, buffer_id)],
                        LAMBDA bm2 :
                        [bm |-> rc_clone(bm2, buffer_id), err |-> "Ok",
                         buffer |-> buffer_id])))))

\* BufferPoolManager::fetch_page: [bm, err, buffer]
fetch_page(bm, page_id) ==
    IF page_id \in DOMAIN bm.page_table
    THEN LET buffer_id == bm.page_table[page_id]
             bm1 == [bm EXCEPT !.buffers[buffer_id].usage_count = @ + 1]
         IN  [bm |-> rc_clone(bm1, buffer_id), err |-> "Ok", buffer |-> buffer_id]
    ELSE
    Let(evict(bm.buffers, bm.next_victim_id), LAMBDA e :
    Let([bm EXCEPT !.buffers = e.buffers, !.next_victim_id = e.next_victim_id], LAMBDA bm1 :
        IF ~e.found THEN Fail(bm1, "NoFreeBuffer")
        ELSE
        LET buffer_id == e.victim
            frame == bm1.buffers[buffer_id]
            evict_page_id == frame.buffer.page_id
        IN  IF frame.rc # 0 THEN Fail(bm1, "Panic")     \* Rc::get_mut(..).unwrap()
            ELSE
            Let(write_back(bm1.heap_buffer, frame.buffer), LAMBDA w :
                IF w = Panic THEN Fail(bm1, "Panic")
                ELSE
                Let(read_page_data(w.heap, page_id), LAMBDA r :
                    IF r = Panic THEN Fail([bm1 EXCEPT !.heap_buffer = w.heap], "Panic")
                    ELSE
                    Let([bm1 EXCEPT
                           !.heap_buffer = w.heap,
                           !.buffers[buffer_id] =
                               [usage_count |-> 1, rc |-> 0,
                                buffer |-> [page_id |-> page_id, page |-> r.data,
                                            is_dirty |-> FALSE]],
                           !.page_table =
                               page_table_replace(@, evict_page_id, page_id, buffer_id)],
                        LAMBDA bm2 :
                        [bm |-> rc_clone(bm2, buffer_id), err |-> "Ok",
                         buffer |-> buffer_id])))))

\* BufferPoolManager::create_page: [bm, err, buffer]; the new page's id is
\* bm.buffers[buffer].buffer.page_id.
\* Mutant: the page id is allocated before a victim is looked for.
create_page_allocates_first(bm) ==
    Let(evict(bm.buffers, bm.next_victim_id), LAMBDA e :
    Let([bm EXCEPT !.buffers = e.buffers, !.next_victim_id = e.next_victim_id], LAMBDA bm1 :
        IF ~e.found THEN Fail([bm1 EXCEPT !.next_page_id = @ + 1], "NoFreeBuffer")
        ELSE
        LET buffer_id == e.victim
            frame == bm1.buffers[buffer_id]
            evict_page_id == frame.buffer.page_id
        IN  IF frame.rc # 0 THEN Fail(bm1, "Panic")     \* Rc::get_mut(..).unwrap()
            ELSE
            Let(write_back(bm1.heap_buffer, frame.buffer), LAMBDA w :
                IF w = Panic THEN Fail(bm1, "Panic")
                ELSE
                LET page_id == bm1.next_page_id      \* DiskManager::allocate_page
                IN
                Let([bm1 EXCEPT
                       !.heap_buffer = w.heap,
                       !.next_page_id = @ + 1,
                       !.buffers[buffer_id] =
                           [usage_count |-> 1, rc |-> 0,
                            buffer |-> [BufferDefault EXCEPT !.page_id = page_id,
                                                             !.is_dirty = TRUE]],
                       !.page_table =
                           page_table_replace(@, evict_page_id, page_id, buffer_id)],
                    LAMBDA bm2 :
                    [bm |-> rc_clone(bm2, buffer_id), err |-> "Ok",
                     buffer |-> buffer_id]))))

create_page(bm) ==
    Let(evict(bm.buffers, bm.next_victim_id), LAMBDA e :
    Let([bm EXCEPT !.buffers = e.buffers, !.next_victim_id = e.next_victim_id], LAMBDA bm1 :
        IF ~e.found THEN Fail(bm1, "NoFreeBuffer")
        ELSE
        LET buffer_id == e.victim
            frame == bm1.buffers[buffer_id]
            evict_page_id == frame.buffer.page_id
        IN  IF frame.rc # 0 THEN Fail(bm1, "Panic")     \* Rc::get_mut(..).unwrap()
            ELSE
            Let(write_back(bm1.heap_buffer, frame.buffer), LAMBDA w :
                IF w = Panic THEN Fail(bm1, "Panic")
                ELSE
                LET page_id == bm1.next_page_id      \* DiskManager::allocate_page
                IN
                Let([bm1 EXCEPT
                       !.heap_buffer = w.heap,
                       !.next_page_id = @ + 1,
                       !.buffers[buffer_id] =
                           [usage_count |-> 1, rc |-> 0,
                            buffer |-> [BufferDefault EXCEPT !.page_id = page_id,
                                                             !.is_dirty = TRUE]],
                       !.page_table =
                           page_table_replace(@, evict_page_id, page_id, buffer_id)],
                    LAMBDA bm2 :
                    [bm |-> rc_clone(bm2, buffer_id), err |-> "Ok",
                     buffer |-> buffer_id]))))

\* The loop of BufferPoolManager::flush over the page table, in any order:
\* every write lands on another page, so the order does not show.
RECURSIVE flush_pages(_, _, _)
flush_pages(bm, heap, pages) ==
    IF pages = {} THEN [heap |-> heap]
    ELSE LET page_id == CHOOSE p \in pages : TRUE IN
         Let(write_page_data(heap, page_id, bm.buffers[bm.page_table[page_id]].buffer.page),
             LAMBDA w :
             IF w = Panic THEN Panic
             ELSE flush_pages(bm, w.heap, pages \ {page_id}))

\* Mutant: flush clears the dirty flags and writes nothing.
flush_clears_only(bm) ==
    [bm |-> [bm EXCEPT !.buffers = [f \in DOMAIN bm.buffers |->
                           [bm.buffers[f] EXCEPT !.buffer.is_dirty = FALSE]]],
     err |-> "Ok"]

\* BufferPoolManager::flush: [bm, err]
flush(bm) ==
    Let(flush_pages(bm, bm.heap_buffer, DOMAIN bm.page_table), LAMBDA w :
        IF w = Panic THEN [bm |-> bm, err |-> "Panic"]
        ELSE [bm |-> [bm EXCEPT
                        !.heap_buffer = w.heap,
                        !.buffers = [f \in DOMAIN bm.buffers |->
                            IF \E p \in DOMAIN bm.page_table : bm.page_table[p] = f
                            THEN [bm.buffers[f] EXCEPT !.buffer.is_dirty = FALSE]
                            ELSE bm.buffers[f]]],
              err |-> "Ok"])

\* Reads and writes through a handle.
page_of(bm, buffer_id) == bm.buffers[buffer_id].buffer.page
page_id_of(bm, buffer_id) == bm.buffers[buffer_id].buffer.page_id
write_page(bm, buffer_id, page) == [bm EXCEPT !.buffers[buffer_id].buffer.page = page]
set_dirty(bm, buffer_id) == [bm EXCEPT !.buffers[buffer_id].buffer.is_dirty = TRUE]

-----------------------------------------------------------------------------
(* btree.rs *)

SearchStart == [kind |-> "Start"]
SearchKey(key) == [kind |-> "Key", key |-> key]

\* SearchMode::child_page_id
mode_child_page_id(mode, branch) ==
    IF mode.kind = "Start" THEN child_at(branch, 0) ELSE search_child(branch, mode.key)

\* Mutant: unwrap_or(0), which forgets the insertion point of an absent key.
mode_tuple_slot_id_or_zero(mode, leaf) ==
    IF mode.kind = "Start" THEN 0
    ELSE Let(search_slot_id(leaf, mode.key), LAMBDA r : IF r.ok THEN r.idx ELSE 0)

\* SearchMode::tuple_slot_id followed by unwrap_or_else(identity)
mode_tuple_slot_id(mode, leaf) ==
    IF mode.kind = "Start" THEN 0 ELSE search_slot_id(leaf, mode.key).idx

\* Mutant: the handle of the tree names the root leaf instead of the meta page.
btree_create_returns_root(bm) ==
    Let(create_page(bm), LAMBDA m :
    IF m.err # "Ok" THEN [bm |-> m.bm, err |-> m.err, meta_page_id |-> INVALID_PAGE_ID]
    ELSE
    Let(create_page(m.bm), LAMBDA r :
    IF r.err # "Ok"
    THEN [bm |-> rc_drop(r.bm, m.buffer), err |-> r.err, meta_page_id |-> INVALID_PAGE_ID]
    ELSE
    Let(write_page(r.bm, r.buffer, leaf_initialize), LAMBDA bm1 :
    Let(write_page(bm1, m.buffer, MetaPage(page_id_of(bm1, r.buffer))), LAMBDA bm2 :
        [bm |-> rc_drop(rc_drop(bm2, r.buffer), m.buffer), err |-> "Ok",
         meta_page_id |-> page_id_of(bm2, r.buffer)]))))

\* BTree::create: [bm, err, meta_page_id].  An early return drops the handles taken.
btree_create(bm) ==
    Let(create_page(bm), LAMBDA m :
    IF m.err # "Ok" THEN [bm |-> m.bm, err |-> m.err, meta_page_id |-> INVALID_PAGE_ID]
    ELSE
    Let(create_page(m.bm), LAMBDA r :
    IF r.err # "Ok"
    THEN [bm |-> rc_drop(r.bm, m.buffer), err |-> r.err, meta_page_id |-> INVALID_PAGE_ID]
    ELSE
    Let(write_page(r.bm, r.buffer, leaf_initialize), LAMBDA bm1 :
    Let(write_page(bm1, m.buffer, MetaPage(page_id_of(bm1, r.buffer))), LAMBDA bm2 :
        [bm |-> rc_drop(rc_drop(bm2, r.buffer), m.buffer), err |-> "Ok",
         meta_page_id |-> page_id_of(bm2, m.buffer)]))))

\* Iter::get: [key, value] or None
iter_get(bm, it) ==
    LET leaf == page_of(bm, it.buffer) IN
    IF it.slot_id < num_pairs(leaf)
    THEN [key |-> leaf.slots[it.slot_id + 1].key, value |-> leaf.slots[it.slot_id + 1].value]
    ELSE None

\* Mutant: moves to the next leaf and keeps the handle of the leaf it leaves.
iter_advance_keeps_handle(bm, it) ==
    LET slot_id == it.slot_id + 1
        leaf == page_of(bm, it.buffer)
    IN  IF slot_id < num_pairs(leaf)
        THEN [bm |-> bm, err |-> "Ok", iter |-> [it EXCEPT !.slot_id = slot_id]]
        ELSE IF leaf.next_page_id = INVALID_PAGE_ID
        THEN [bm |-> bm, err |-> "Ok", iter |-> [it EXCEPT !.slot_id = slot_id]]
        ELSE Let(fetch_page(bm, leaf.next_page_id), LAMBDA f :
             IF f.err # "Ok"
             THEN [bm |-> f.bm, err |-> f.err, iter |-> [it EXCEPT !.slot_id = slot_id]]
             ELSE [bm |-> f.bm, err |-> "Ok",
                   iter |-> [buffer |-> f.buffer, slot_id |-> 0]])

\* Mutant: moves to the next leaf without resetting slot_id to 0.
iter_advance_keeps_slot(bm, it) ==
    LET slot_id == it.slot_id + 1
        leaf == page_of(bm, it.buffer)
    IN  IF slot_id < num_pairs(leaf)
        THEN [bm |-> bm, err |-> "Ok", iter |-> [it EXCEPT !.slot_id = slot_id]]
        ELSE IF leaf.next_page_id = INVALID_PAGE_ID
        THEN [bm |-> bm, err |-> "Ok", iter |-> [it EXCEPT !.slot_id = slot_id]]
        ELSE Let(fetch_page(bm, leaf.next_page_id), LAMBDA f :
             IF f.err # "Ok"
             THEN [bm |-> f.bm, err |-> f.err, iter |-> [it EXCEPT !.slot_id = slot_id]]
             ELSE [bm |-> rc_drop(f.bm, it.buffer), err |-> "Ok",
                   iter |-> [buffer |-> f.buffer, slot_id |-> slot_id]])

\* Iter::advance: [bm, err, iter]
iter_advance(bm, it) ==
    LET slot_id == it.slot_id + 1
        leaf == page_of(bm, it.buffer)
    IN  IF slot_id < num_pairs(leaf)
        THEN [bm |-> bm, err |-> "Ok", iter |-> [it EXCEPT !.slot_id = slot_id]]
        ELSE IF leaf.next_page_id = INVALID_PAGE_ID
        THEN [bm |-> bm, err |-> "Ok", iter |-> [it EXCEPT !.slot_id = slot_id]]
        ELSE Let(fetch_page(bm, leaf.next_page_id), LAMBDA f :
             IF f.err # "Ok"
             THEN [bm |-> f.bm, err |-> f.err, iter |-> [it EXCEPT !.slot_id = slot_id]]
             ELSE [bm |-> rc_drop(f.bm, it.buffer), err |-> "Ok",
                   iter |-> [buffer |-> f.buffer, slot_id |-> 0]])

\* Iter::next: [bm, err, iter, value]
iter_next(bm, it) ==
    LET value == iter_get(bm, it) IN
    Let(iter_advance(bm, it), LAMBDA a :
        [bm |-> a.bm, err |-> a.err, iter |-> a.iter,
         value |-> IF a.err = "Ok" THEN value ELSE None])

\* BTree::fetch_root_page: [bm, err, buffer]
fetch_root_page(bm, meta_page_id) ==
    Let(fetch_page(bm, meta_page_id), LAMBDA m :
        IF m.err # "Ok" THEN m
        ELSE LET root_page_id == meta_root_page_id(page_of(m.bm, m.buffer))
             IN  fetch_page(rc_drop(m.bm, m.buffer), root_page_id))

\* Mutant: the branch stays pinned while the child is fetched and searched.
RECURSIVE search_internal_holds_parent(_, _, _)
search_internal_holds_parent(bm, node_buffer, search_mode) ==
    LET node == page_of(bm, node_buffer) IN
    IF node.node_type = NODE_TYPE_LEAF
    THEN Let(mode_tuple_slot_id(search_mode, node), LAMBDA slot_id :
         LET is_right_most == num_pairs(node) = slot_id
             it == [buffer |-> node_buffer, slot_id |-> slot_id]
         IN  IF is_right_most
             THEN Let(iter_advance(bm, it), LAMBDA a :
                  IF a.err # "Ok"
                  THEN [bm |-> rc_drop(a.bm, a.iter.buffer), err |-> a.err, iter |-> NoIter]
                  ELSE a)
             ELSE [bm |-> bm, err |-> "Ok", iter |-> it])
    ELSE Let(mode_child_page_id(search_mode, node), LAMBDA child_page_id :
         Let(fetch_page(bm, child_page_id), LAMBDA f :
             IF f.err # "Ok"
             THEN [bm |-> rc_drop(f.bm, node_buffer), err |-> f.err, iter |-> NoIter]
             ELSE Let(search_internal_holds_parent(f.bm, f.buffer, search_mode),
                      LAMBDA r : [r EXCEPT !.bm = rc_drop(@, node_buffer)])))

\* BTree::search_internal: [bm, err, iter].  On an error the Iter is dropped.
RECURSIVE search_internal(_, _, _)
search_internal(bm, node_buffer, search_mode) ==
    LET node == page_of(bm, node_buffer) IN
    IF node.node_type = NODE_TYPE_LEAF
    THEN Let(mode_tuple_slot_id(search_mode, node), LAMBDA slot_id :
         LET is_right_most == num_pairs(node) = slot_id
             it == [buffer |-> node_buffer, slot_id |-> slot_id]
         IN  IF is_right_most
             THEN Let(iter_advance(bm, it), LAMBDA a :
                  IF a.err # "Ok"
                  THEN [bm |-> rc_drop(a.bm, a.iter.buffer), err |-> a.err, iter |-> NoIter]
                  ELSE a)
             ELSE [bm |-> bm, err |-> "Ok", iter |-> it])
    ELSE Let(mode_child_page_id(search_mode, node), LAMBDA child_page_id :
         Let(fetch_page(rc_drop(bm, node_buffer), child_page_id), LAMBDA f :
             IF f.err # "Ok" THEN [bm |-> f.bm, err |-> f.err, iter |-> NoIter]
             ELSE search_internal(f.bm, f.buffer, search_mode)))

\* BTree::search: [bm, err, iter]
btree_search(bm, meta_page_id, search_mode) ==
    Let(fetch_root_page(bm, meta_page_id), LAMBDA r :
        IF r.err # "Ok" THEN [bm |-> r.bm, err |-> r.err, iter |-> NoIter]
        ELSE search_internal(r.bm, r.buffer, search_mode))

\* Mutant: the previous leaf keeps pointing at the leaf that is split.
leaf_split_leaves_prev_alone(bm, buffer, key, value) ==
    LET leaf == page_of(bm, buffer)
        prev_leaf_page_id == leaf.prev_page_id
        has_prev == prev_leaf_page_id # INVALID_PAGE_ID
    IN
    Let(IF has_prev THEN fetch_page(bm, prev_leaf_page_id)
        ELSE [bm |-> bm, err |-> "Ok", buffer |-> 0], LAMBDA p :
    IF p.err # "Ok" THEN [bm |-> p.bm, err |-> p.err, overflow |-> None]
    ELSE
    LET DropPrev(b) == IF has_prev THEN rc_drop(b, p.buffer) ELSE b IN
    Let(create_page(p.bm), LAMBDA c :
    IF c.err # "Ok" THEN [bm |-> DropPrev(c.bm), err |-> c.err, overflow |-> None]
    ELSE
    LET new_page_id == page_id_of(c.bm, c.buffer) IN
    Let(c.bm, LAMBDA bm1 :
    Let(leaf_split_insert([page_of(bm1, buffer) EXCEPT !.prev_page_id = new_page_id],
                          leaf_initialize, key, value), LAMBDA s :
    IF s = Panic
    THEN [bm |-> rc_drop(DropPrev(bm1), c.buffer), err |-> "Panic", overflow |-> None]
    ELSE
    LET new_leaf == [s.dest EXCEPT !.next_page_id = page_id_of(bm1, buffer),
                                   !.prev_page_id = prev_leaf_page_id]
    IN
    Let(set_dirty(write_page(write_page(bm1, buffer, s.self), c.buffer, new_leaf), buffer),
        LAMBDA bm3 :
        [bm |-> rc_drop(DropPrev(bm3), c.buffer), err |-> "Ok",
         overflow |-> [key |-> s.key, page_id |-> new_page_id]])))))

\* Mutant: the next leaf is fetched as well and held until the split is done.
leaf_split_pins_next_leaf(bm, buffer, key, value) ==
    LET next_leaf_page_id == page_of(bm, buffer).next_page_id
        has_next == next_leaf_page_id # INVALID_PAGE_ID
        Split(bm0) ==
            LET leaf == page_of(bm0, buffer)
                prev_leaf_page_id == leaf.prev_page_id
                has_prev == prev_leaf_page_id # INVALID_PAGE_ID
            IN
            Let(IF has_prev THEN fetch_page(bm0, prev_leaf_page_id)
                ELSE [bm |-> bm0, err |-> "Ok", buffer |-> 0], LAMBDA p :
            IF p.err # "Ok" THEN [bm |-> p.bm, err |-> p.err, overflow |-> None]
            ELSE
            LET DropPrev(b) == IF has_prev THEN rc_drop(b, p.buffer) ELSE b IN
            Let(create_page(p.bm), LAMBDA c :
            IF c.err # "Ok" THEN [bm |-> DropPrev(c.bm), err |-> c.err, overflow |-> None]
            ELSE
            LET new_page_id == page_id_of(c.bm, c.buffer) IN
            Let(IF has_prev
                THEN set_dirty(write_page(c.bm, p.buffer,
                         [page_of(c.bm, p.buffer) EXCEPT !.next_page_id = new_page_id]),
                         p.buffer)
                ELSE c.bm, LAMBDA bm1 :
            Let(leaf_split_insert([page_of(bm1, buffer) EXCEPT !.prev_page_id = new_page_id],
                                  leaf_initialize, key, value), LAMBDA s :
            IF s = Panic
            THEN [bm |-> rc_drop(DropPrev(bm1), c.buffer), err |-> "Panic", overflow |-> None]
            ELSE
            LET new_leaf == [s.dest EXCEPT !.next_page_id = page_id_of(bm1, buffer),
                                           !.prev_page_id = prev_leaf_page_id]
            IN
            Let(set_dirty(write_page(write_page(bm1, buffer, s.self), c.buffer, new_leaf), buffer),
                LAMBDA bm3 :
                [bm |-> rc_drop(DropPrev(bm3), c.buffer), err |-> "Ok",
                 overflow |-> [key |-> s.key, page_id |-> new_page_id]])))))
    IN
    Let(IF has_next THEN fetch_page(bm, next_leaf_page_id)
        ELSE [bm |-> bm, err |-> "Ok", buffer |-> 0], LAMBDA n :
    IF n.err # "Ok" THEN [bm |-> n.bm, err |-> n.err, overflow |-> None]
    ELSE Let(Split(n.bm), LAMBDA r :
             [r EXCEPT !.bm = IF has_next THEN rc_drop(@, n.buffer) ELSE @]))

\* The leaf arm of BTree::insert_internal once Leaf::insert returned None:
\* [bm, err, overflow], the handles it took (prev leaf, new leaf) dropped.
leaf_split(bm, buffer, key, value) ==
    LET leaf == page_of(bm, buffer)
        prev_leaf_page_id == leaf.prev_page_id
        has_prev == prev_leaf_page_id # INVALID_PAGE_ID
    IN
    Let(IF has_prev THEN fetch_page(bm, prev_leaf_page_id)
        ELSE [bm |-> bm, err |-> "Ok", buffer |-> 0], LAMBDA p :
    IF p.err # "Ok" THEN [bm |-> p.bm, err |-> p.err, overflow |-> None]
    ELSE
    LET DropPrev(b) == IF has_prev THEN rc_drop(b, p.buffer) ELSE b IN
    Let(create_page(p.bm), LAMBDA c :
    IF c.err # "Ok" THEN [bm |-> DropPrev(c.bm), err |-> c.err, overflow |-> None]
    ELSE
    LET new_page_id == page_id_of(c.bm, c.buffer) IN
    Let(IF has_prev
        THEN set_dirty(write_page(c.bm, p.buffer,
                 [page_of(c.bm, p.buffer) EXCEPT !.next_page_id = new_page_id]),
                 p.buffer)
        ELSE c.bm, LAMBDA bm1 :
    Let(leaf_split_insert([page_of(bm1, buffer) EXCEPT !.prev_page_id = new_page_id],
                          leaf_initialize, key, value), LAMBDA s :
    IF s = Panic
    THEN [bm |-> rc_drop(DropPrev(bm1), c.buffer), err |-> "Panic", overflow |-> None]
    ELSE
    LET new_leaf == [s.dest EXCEPT !.next_page_id = page_id_of(bm1, buffer),
                                   !.prev_page_id = prev_leaf_page_id]
    IN
    Let(set_dirty(write_page(write_page(bm1, buffer, s.self), c.buffer, new_leaf), buffer),
        LAMBDA bm3 :
        [bm |-> rc_drop(DropPrev(bm3), c.buffer), err |-> "Ok",
         overflow |-> [key |-> s.key, page_id |-> new_page_id]])))))

\* The branch arm of BTree::insert_internal once Branch::insert returned None.
branch_split(bm, buffer, key, page_id) ==
    Let(create_page(bm), LAMBDA c :
    IF c.err # "Ok" THEN [bm |-> c.bm, err |-> c.err, overflow |-> None]
    ELSE
    LET new_branch == [node_type |-> NODE_TYPE_BRANCH, right_child |-> 0, slots |-> <<>>]
    IN
    Let(branch_split_insert(page_of(c.bm, buffer), new_branch, key, page_id), LAMBDA s :
    IF s = Panic
    THEN [bm |-> rc_drop(c.bm, c.buffer), err |-> "Panic", overflow |-> None]
    ELSE
    Let(write_page(write_page(c.bm, buffer, s.self), c.buffer, s.dest), LAMBDA bm1 :
    Let(set_dirty(set_dirty(bm1, buffer), c.buffer), LAMBDA bm2 :
        [bm |-> rc_drop(bm2, c.buffer), err |-> "Ok",
         overflow |-> [key |-> s.key, page_id |-> page_id_of(bm2, c.buffer)]]))))

\* Mutant: a leaf that took the pair without a split is not marked dirty.
RECURSIVE insert_internal_keeps_leaf_clean(_, _, _, _)
insert_internal_keeps_leaf_clean(bm, buffer, key, value) ==
    LET node == page_of(bm, buffer)
        Ret(r) == [r EXCEPT !.bm = rc_drop(@, buffer)]
    IN  IF node.node_type = NODE_TYPE_LEAF
        THEN Let(search_slot_id(node, key), LAMBDA r :
             IF r.ok THEN Ret([bm |-> bm, err |-> "DuplicateKey", overflow |-> None])
             ELSE Let(leaf_insert(node, r.idx, key, value), LAMBDA i :
                  IF i = Panic THEN Ret([bm |-> bm, err |-> "Panic", overflow |-> None])
                  ELSE IF i # None
                  THEN Ret([bm |-> write_page(bm, buffer, i.node),
                            err |-> "Ok", overflow |-> None])
                  ELSE Ret(leaf_split(bm, buffer, key, value))))
        ELSE Let(search_child_idx(node, key), LAMBDA child_idx :
             Let(fetch_page(bm, child_at(node, child_idx)), LAMBDA f :
                 IF f.err # "Ok" THEN Ret([bm |-> f.bm, err |-> f.err, overflow |-> None])
                 ELSE
                 Let(insert_internal_keeps_leaf_clean(f.bm, f.buffer, key, value), LAMBDA r :
                 IF r.err # "Ok" \/ r.overflow = None THEN Ret(r)
                 ELSE
                 Let(branch_insert(page_of(r.bm, buffer), child_idx,
                                   r.overflow.key, r.overflow.page_id), LAMBDA i :
                     IF i = Panic THEN Ret([bm |-> r.bm, err |-> "Panic", overflow |-> None])
                     ELSE IF i # None
                     THEN Ret([bm |-> set_dirty(write_page(r.bm, buffer, i.node), buffer),
                               err |-> "Ok", overflow |-> None])
                     ELSE Ret(branch_split(r.bm, buffer, r.overflow.key,
                                           r.overflow.page_id))))))

\* BTree::insert_internal: [bm, err, overflow].  The function owns the handle
\* `buffer` and drops it when it returns.
RECURSIVE insert_internal(_, _, _, _)
insert_internal(bm, buffer, key, value) ==
    LET node == page_of(bm, buffer)
        Ret(r) == [r EXCEPT !.bm = rc_drop(@, buffer)]
    IN  IF node.node_type = NODE_TYPE_LEAF
        THEN Let(search_slot_id(node, key), LAMBDA r :
             IF r.ok THEN Ret([bm |-> bm, err |-> "DuplicateKey", overflow |-> None])
             ELSE Let(leaf_insert(node, r.idx, key, value), LAMBDA i :
                  IF i = Panic THEN Ret([bm |-> bm, err |-> "Panic", overflow |-> None])
                  ELSE IF i # None
                  THEN Ret([bm |-> set_dirty(write_page(bm, buffer, i.node), buffer),
                            err |-> "Ok", overflow |-> None])
                  ELSE Ret(leaf_split(bm, buffer, key, value))))
        ELSE Let(search_child_idx(node, key), LAMBDA child_idx :
             Let(fetch_page(bm, child_at(node, child_idx)), LAMBDA f :
                 IF f.err # "Ok" THEN Ret([bm |-> f.bm, err |-> f.err, overflow |-> None])
                 ELSE
                 Let(insert_internal(f.bm, f.buffer, key, value), LAMBDA r :
                 IF r.err # "Ok" \/ r.overflow = None THEN Ret(r)
                 ELSE
                 Let(branch_insert(page_of(r.bm, buffer), child_idx,
                                   r.overflow.key, r.overflow.page_id), LAMBDA i :
                     IF i = Panic THEN Ret([bm |-> r.bm, err |-> "Panic", overflow |-> None])
                     ELSE IF i # None
                     THEN Ret([bm |-> set_dirty(write_page(r.bm, buffer, i.node), buffer),
                               err |-> "Ok", overflow |-> None])
                     ELSE Ret(branch_split(r.bm, buffer, r.overflow.key,
                                           r.overflow.page_id))))))

\* Mutant: the meta page records the sibling of the old root instead of the new root.
btree_insert_roots_at_sibling(bm, meta_page_id, key, value) ==
    Let(fetch_page(bm, meta_page_id), LAMBDA m :
    IF m.err # "Ok" THEN [bm |-> m.bm, err |-> m.err]
    ELSE
    LET root_page_id == meta_root_page_id(page_of(m.bm, m.buffer)) IN
    Let(fetch_page(m.bm, root_page_id), LAMBDA f :
    IF f.err # "Ok" THEN [bm |-> rc_drop(f.bm, m.buffer), err |-> f.err]
    ELSE
    Let(insert_internal(f.bm, f.buffer, key, value), LAMBDA r :
    IF r.err # "Ok" \/ r.overflow = None
    THEN [bm |-> rc_drop(r.bm, m.buffer), err |-> r.err]
    ELSE
    Let(create_page(r.bm), LAMBDA c :
    IF c.err # "Ok" THEN [bm |-> rc_drop(c.bm, m.buffer), err |-> c.err]
    ELSE
    Let(branch_initialize(r.overflow.key, r.overflow.page_id, root_page_id), LAMBDA b :
    IF b = Panic
    THEN [bm |-> rc_drop(rc_drop(c.bm, c.buffer), m.buffer), err |-> "Panic"]
    ELSE
    Let(write_page(c.bm, c.buffer, b.node), LAMBDA bm1 :
    Let(set_dirty(write_page(bm1, m.buffer, MetaPage(r.overflow.page_id)), m.buffer),
        LAMBDA bm3 :
        [bm |-> rc_drop(rc_drop(bm3, c.buffer), m.buffer), err |-> "Ok"])))))))

\* BTree::insert: [bm, err]
btree_insert(bm, meta_page_id, key, value) ==
    Let(fetch_page(bm, meta_page_id), LAMBDA m :
    IF m.err # "Ok" THEN [bm |-> m.bm, err |-> m.err]
    ELSE
    LET root_page_id == meta_root_page_id(page_of(m.bm, m.buffer)) IN
    Let(fetch_page(m.bm, root_page_id), LAMBDA f :
    IF f.err # "Ok" THEN [bm |-> rc_drop(f.bm, m.buffer), err |-> f.err]
    ELSE
    Let(insert_internal(f.bm, f.buffer, key, value), LAMBDA r :
    IF r.err # "Ok" \/ r.overflow = None
    THEN [bm |-> rc_drop(r.bm, m.buffer), err |-> r.err]
    ELSE
    Let(create_page(r.bm), LAMBDA c :
    IF c.err # "Ok" THEN [bm |-> rc_drop(c.bm, m.buffer), err |-> c.err]
    ELSE
    Let(branch_initialize(r.overflow.key, r.overflow.page_id, root_page_id), LAMBDA b :
    IF b = Panic
    THEN [bm |-> rc_drop(rc_drop(c.bm, c.buffer), m.buffer), err |-> "Panic"]
    ELSE
    Let(write_page(c.bm, c.buffer, b.node), LAMBDA bm1 :
    Let(set_dirty(write_page(bm1, m.buffer, MetaPage(page_id_of(bm1, c.buffer))), m.buffer),
        LAMBDA bm3 :
        [bm |-> rc_drop(rc_drop(bm3, c.buffer), m.buffer), err |-> "Ok"])))))))

-----------------------------------------------------------------------------
(* The inputs of the B+Tree specification.  Keys of about 2000 bytes make  *)
(* a leaf hold two pairs and a branch two separators, so that six inserts  *)
(* reach leaf, branch and root splits; KeyA is a proper prefix of KeyA2;   *)
(* KeyS is short and carries a long value.                                 *)

KeyA  == Bytes(<<>>, 1, 2000)
KeyA2 == Bytes(<<>>, 1, 2010)
KeyB  == Bytes(<<>>, 2, 2000)
KeyC  == Bytes(<<>>, 3, 2000)
KeyS  == Bytes(<<3, 7>>, 0, 0)
KeyD  == Bytes(<<>>, 4, 2000)
KeyE  == Bytes(<<>>, 5, 1000)

Keys == {KeyA, KeyA2, KeyB, KeyC, KeyS, KeyD, KeyE}

\* Keys that are never inserted, for searches between and beyond the stored ones.
ProbeKeys == Keys \cup {Bytes(<<>>, 0, 0), Bytes(<<>>, 2, 1999), Bytes(<<>>, 9, 1)}

\* The value first inserted with a key, and the value of a repeated insert.
ValueOf(key) ==
    IF key = KeyS THEN Bytes(<<>>, 0, 1024)
    ELSE IF key = KeyE THEN Bytes(<<>>, 238, 1000)
    ELSE IF key = KeyB THEN Bytes(<<>>, 7, 18)
    ELSE Bytes(<<33>>, 0, 0)

OtherValue == Bytes(<<120>>, 0, 0)

-----------------------------------------------------------------------------
(* The state machine of the B+Tree over the buffer pool *)

BM == [buffers |-> buffers, next_victim_id |-> next_victim_id,
       page_table |-> page_table, heap_buffer |-> heap_buffer,
       next_page_id |-> next_page_id, peak |-> NumPinned(buffers)]

SetBM(bm) ==
    /\ buffers' = bm.buffers
    /\ next_victim_id' = bm.next_victim_id
    /\ page_table' = bm.page_table
    /\ heap_buffer' = bm.heap_buffer
    /\ next_page_id' = bm.next_page_id

\* BufferPool::new, DiskManager::new and BufferPoolManager::new
InitPool(pool_size) ==
    /\ buffers = [f \in 0..(pool_size - 1) |-> FrameDefault]
    /\ next_victim_id = 0
    /\ page_table = [p \in {} |-> 0]
    /\ heap_buffer = [p \in 0..(HeapPages - 1) |-> ZeroPage]
    /\ next_page_id = 0

NoCall == [op |-> "none", err |-> "Ok", inserts |-> 0, pinops |-> 0]

Init ==
    /\ \E pool_size \in 1..PoolSize : InitPool(pool_size)
    /\ tree = NoTree
    /\ iter = NoIter
    /\ held = <<>>
    /\ stored = [k \in {} |-> 0]
    /\ last = NoCall
    /\ written = None
    /\ slotted = None
    /\ exec = None
    /\ nodes = None
    /\ yielded = <<>>
    /\ codec = None

Create ==
    /\ tree = NoTree
    /\ last.op = "none"
    /\ \E r \in {btree_create(BM)} :
       /\ SetBM(r.bm)
       /\ tree' = IF r.err = "Ok" THEN [meta_page_id |-> r.meta_page_id] ELSE NoTree
       /\ last' = [op |-> "create", err |-> r.err, inserts |-> 0, pinops |-> 0]
    /\ UNCHANGED <<iter, held, stored, written, codec, slotted, exec, nodes, yielded>>

Insert(key) ==
    /\ tree # NoTree
    /\ last.inserts < MaxInserts
    /\ last.err # "Panic"
    /\ LET value == IF key \in DOMAIN stored THEN OtherValue ELSE ValueOf(key) IN
       \E r \in {btree_insert(BM, tree.meta_page_id, key, value)} :
           /\ SetBM(r.bm)
           /\ stored' = IF r.err = "Ok"
                        THEN [k \in DOMAIN stored \cup {key} |->
                                 IF k = key THEN value ELSE stored[k]]
                        ELSE stored
           /\ last' = [op |-> "insert", err |-> r.err, key |-> key, value |-> value,
                       peak |-> r.bm.peak,
                       inserts |-> last.inserts + 1, pinops |-> last.pinops]
    /\ UNCHANGED <<tree, iter, held, written, codec, slotted, exec, nodes, yielded>>

\* The caller fetches a page and keeps the handle.
Hold(page_id) ==
    /\ tree # NoTree
    /\ last.pinops < MaxPinOps
    /\ Len(held) < MaxHeld
    /\ last.err # "Panic"
    /\ \E r \in {fetch_page(BM, page_id)} :
       /\ SetBM(r.bm)
       /\ held' = IF r.err = "Ok" THEN Append(held, r.buffer) ELSE held
       /\ last' = [op |-> "fetch_page", err |-> r.err, page_id |-> page_id,
                   inserts |-> last.inserts, pinops |-> last.pinops + 1]
    /\ UNCHANGED <<tree, iter, stored, written, codec, slotted, exec, nodes, yielded>>

\* The caller drops the handle it took last.
Release ==
    /\ held # <<>>
    /\ last.err # "Panic"
    /\ SetBM(rc_drop(BM, held[Len(held)]))
    /\ held' = SubSeq(held, 1, Len(held) - 1)
    /\ last' = [op |-> "drop", err |-> "Ok",
                inserts |-> last.inserts, pinops |-> last.pinops]
    /\ UNCHANGED <<tree, iter, stored, written, codec, slotted, exec, nodes, yielded>>

\* The caller calls BTree::search and keeps the Iter.
IterOpen(mode) ==
    /\ tree # NoTree
    /\ iter = NoIter
    /\ last.pinops < MaxPinOps
    /\ last.err # "Panic"
    /\ \E r \in {btree_search(BM, tree.meta_page_id, mode)} :
       /\ SetBM(r.bm)
       /\ iter' = r.iter
       /\ last' = [op |-> "search", err |-> r.err, mode |-> mode,
                   peak |-> r.bm.peak,
                   inserts |-> last.inserts, pinops |-> last.pinops + 1]
    /\ yielded' = <<>>
    /\ UNCHANGED <<tree, held, stored, written, codec, slotted, exec, nodes>>

\* The caller calls Iter::next on its Iter, until it has seen the last pair.
IterNext ==
    /\ iter # NoIter
    /\ iter_get(BM, iter) # None
    /\ last.err # "Panic"
    /\ \E r \in {iter_next(BM, iter)} :
       /\ SetBM(r.bm)
       /\ iter' = r.iter
       /\ last' = [op |-> "next", err |-> r.err, value |-> r.value,
                   peak |-> r.bm.peak,
                   inserts |-> last.inserts, pinops |-> last.pinops]
       /\ yielded' = IF r.value = None THEN yielded ELSE Append(yielded, r.value.key)
    /\ UNCHANGED <<tree, held, stored, written, codec, slotted, exec, nodes>>

\* The caller drops its Iter.
IterClose ==
    /\ iter # NoIter
    /\ last.err # "Panic"
    /\ SetBM(rc_drop(BM, iter.buffer))
    /\ iter' = NoIter
    /\ last' = [op |-> "drop_iter", err |-> "Ok",
                inserts |-> last.inserts, pinops |-> last.pinops]
    /\ yielded' = <<>>
    /\ UNCHANGED <<tree, held, stored, written, codec, slotted, exec, nodes>>

Next ==
    \/ Create
    \/ \E key \in Keys : Insert(key)

Spec == Init /\ [][Next]_vars

\* Several trees in one store: the caller creates a tree while fewer than
\* 2 * MaxTrees pages are allocated and inserts into the tree created last.
TreeKeys == {KeyA, KeyB, KeyC}

CreateTree ==
    /\ next_page_id < 2 * MaxTrees
    /\ last.err # "Panic"
    /\ \E r \in {btree_create(BM)} :
       /\ SetBM(r.bm)
       /\ tree' = IF r.err = "Ok" THEN [meta_page_id |-> r.meta_page_id] ELSE tree
       /\ stored' = IF r.err = "Ok" THEN [k \in {} |-> 0] ELSE stored
       /\ last' = [op |-> "create", err |-> r.err, inserts |-> last.inserts,
                   pinops |-> last.pinops]
    /\ UNCHANGED <<iter, held, written, codec, slotted, exec, nodes, yielded>>

NextTrees ==
    \/ CreateTree
    \/ \E key \in TreeKeys : Insert(key)

SpecTrees == Init /\ [][NextTrees]_vars

\* The same tree with a caller that holds handles and an iterator while it inserts.
PinKeys == {KeyA, KeyA2, KeyB, KeyC, KeyD}
IterModes == {SearchStart, SearchKey(KeyB), SearchKey(Bytes(<<>>, 9, 1))}

InitPins ==
    /\ \E pool_size \in (PoolSize - 2)..PoolSize : InitPool(pool_size)
    /\ tree = NoTree
    /\ iter = NoIter
    /\ held = <<>>
    /\ stored = [k \in {} |-> 0]
    /\ last = NoCall
    /\ written = None
    /\ slotted = None
    /\ exec = None
    /\ nodes = None
    /\ yielded = <<>>
    /\ codec = None

NextPins ==
    \/ Create
    \/ \E key \in PinKeys : Insert(key)
    \/ \E page_id \in 0..(next_page_id - 1) : Hold(page_id)
    \/ Release
    \/ \E mode \in IterModes : IterOpen(mode)
    \/ IterNext
    \/ IterClose

SpecPins == InitPins /\ [][NextPins]_vars

------------------------------------------------------------------------------
(* One scan of a tree of short and long keys, with inserts between the     *)
(* calls of next.                                                            *)

ScanKeys == {Bytes(<<1>>, 0, 0), Bytes(<<2>>, 0, 0), Bytes(<<3>>, 0, 0), KeyA, KeyC}

InitScan ==
    /\ InitPool(PoolSize)
    /\ tree = NoTree
    /\ iter = NoIter
    /\ held = <<>>
    /\ stored = [k \in {} |-> 0]
    /\ last = NoCall
    /\ written = None
    /\ slotted = None
    /\ exec = None
    /\ nodes = None
    /\ yielded = <<>>
    /\ codec = None

NextScan ==
    \/ Create
    \/ \E key \in ScanKeys : Insert(key)
    \/ IterOpen(SearchStart)
    \/ IterNext
    \/ IterClose

SpecScan == InitScan /\ [][NextScan]_vars

------------------------------------------------------------------------------
(* One call of BufferPool::evict, an iteration of its loop at a time, on a  *)
(* pool with any usage counters, pinned frames and next_victim_id.          *)

InitEvict ==
    /\ \E pool_size \in 1..PoolFrames :
       \E usage \in [0..(pool_size - 1) -> 0..MaxUsage] :
       \E pinned \in SUBSET (0..(pool_size - 1)) :
          /\ buffers = [f \in 0..(pool_size - 1) |->
                           [FrameDefault EXCEPT !.usage_count = usage[f],
                                                !.rc = IF f \in pinned THEN 1 ELSE 0]]
          /\ next_victim_id \in 0..(pool_size - 1)
          /\ last = [op |-> "evict", err |-> "Ok", consecutive_pinned |-> 0,
                     done |-> FALSE, found |-> FALSE,
                     frames |-> buffers, next_victim_id |-> next_victim_id]
    /\ page_table = [p \in {} |-> 0]
    /\ heap_buffer = [p \in 0..(HeapPages - 1) |-> ZeroPage]
    /\ next_page_id = 0
    /\ tree = NoTree
    /\ iter = NoIter
    /\ held = <<>>
    /\ stored = [k \in {} |-> 0]
    /\ written = None
    /\ slotted = None
    /\ exec = None
    /\ nodes = None
    /\ yielded = <<>>
    /\ codec = None

\* The next iteration of the loop, until the call returns.
EvictStep ==
    /\ ~last.done
    /\ \E r \in {evict_step(buffers, next_victim_id, last.consecutive_pinned)} :
       /\ buffers' = r.buffers
       /\ next_victim_id' = r.next_victim_id
       /\ last' = [last EXCEPT !.consecutive_pinned = r.consecutive_pinned,
                               !.done = r.done, !.found = r.found]
    /\ UNCHANGED <<page_table, heap_buffer, next_page_id, tree, iter, held, stored,
                   written, codec, slotted, exec, nodes, yielded>>

NextEvict == EvictStep

SpecEvict == InitEvict /\ [][NextEvict]_vars /\ WF_vars(EvictStep)

------------------------------------------------------------------------------
(* binary_search_by alone, on strictly ascending vectors of integers with   *)
(* the closure of the test of bsearch.rs, |idx| a[idx].cmp(&target).        *)

\* The elements of the vector of the test; the vectors are its subsets in order.
SearchElems == {1, 2, 3, 5, 8, 13, 21}
SearchTargets ==
    SearchElems \cup {x - 1 : x \in SearchElems} \cup {x + 1 : x \in SearchElems}

\* Ord::cmp on integers
Ord_cmp(a, b) == IF a < b THEN "Less" ELSE IF a > b THEN "Greater" ELSE "Equal"

Ascending(S) ==
    [i \in 1..Cardinality(S) |->
        CHOOSE x \in S : Cardinality({y \in S : y < x}) = i - 1]

InitSearch ==
    /\ \E S \in SUBSET SearchElems :
          last = [op |-> "vec", err |-> "Ok", a |-> Ascending(S), target |-> 0,
                  ok |-> FALSE, idx |-> 0]
    /\ buffers = <<>>
    /\ next_victim_id = 0
    /\ page_table = [p \in {} |-> 0]
    /\ heap_buffer = [p \in 0..(HeapPages - 1) |-> ZeroPage]
    /\ next_page_id = 0
    /\ tree = NoTree
    /\ iter = NoIter
    /\ held = <<>>
    /\ stored = [k \in {} |-> 0]
    /\ written = None
    /\ slotted = None
    /\ exec = None
    /\ nodes = None
    /\ yielded = <<>>
    /\ codec = None

\* binary_search_by(a.len(), |idx| a[idx].cmp(&target))
BinarySearch(target) ==
    /\ \E r \in {binary_search_by(Len(last.a),
                     [idx \in 0..(Len(last.a) - 1) |-> Ord_cmp(last.a[idx + 1], target)])} :
          last' = [last EXCEPT !.op = "binary_search_by", !.target = target,
                               !.ok = r.ok, !.idx = r.idx]
    /\ UNCHANGED <<buffers, next_victim_id, page_table, heap_buffer, next_page_id, tree,
                   iter, held, stored, written, codec, slotted, exec, nodes, yielded>>

NextSearch == \E target \in SearchTargets : BinarySearch(target)

SpecSearch == InitSearch /\ [][NextSearch]_vars

-----------------------------------------------------------------------------
(* The buffer pool manager alone, driven by a caller that creates and      *)
(* fetches pages, writes through the handles it holds and marks them       *)
(* dirty, drops handles and flushes.  written is the ghost record of the   *)
(* bytes last written to every page.                                       *)

Hello == [raw |-> "hello"]
World == [raw |-> "world"]
PageData == {Hello, World}

RemoveAt(seq, i) == SubSeq(seq, 1, i - 1) \o SubSeq(seq, i + 1, Len(seq))

\* The caller's handles are kept in the order of their frames.
Keep(seq, buffer_id) ==
    LET n == Cardinality({i \in 1..Len(seq) : seq[i] <= buffer_id})
    IN  (SubSeq(seq, 1, n) \o <<buffer_id>>) \o SubSeq(seq, n + 1, Len(seq))

\* What the caller sees before a call of the pool.
Before == [pinned |-> NumPinned(buffers),
           stale |-> {p \in DOMAIN written : heap_buffer[p] # written[p]}]

InitBuf ==
    /\ \E pool_size \in 1..PoolFrames : InitPool(pool_size)
    /\ tree = NoTree
    /\ iter = NoIter
    /\ held = <<>>
    /\ stored = [k \in {} |-> 0]
    /\ last = [op |-> "none", err |-> "Ok"]
    /\ written = [p \in {} |-> ZeroPage]
    /\ slotted = None
    /\ exec = None
    /\ nodes = None
    /\ yielded = <<>>
    /\ codec = None

\* create_page; the caller keeps the handle.
CreatePage ==
    /\ last.err # "Panic"
    /\ Len(held) < MaxHandles
    /\ next_page_id < MaxPages
    /\ \E r \in {create_page(BM)} :
       /\ SetBM(r.bm)
       /\ held' = IF r.err = "Ok" THEN Keep(held, r.buffer) ELSE held
       /\ written' = IF r.err = "Ok"
                     THEN [p \in DOMAIN written \cup {page_id_of(r.bm, r.buffer)} |->
                              IF p \in DOMAIN written THEN written[p] ELSE ZeroPage]
                     ELSE written
       /\ last' = [op |-> "create_page", err |-> r.err, hit |-> FALSE,
                   buffer |-> r.buffer, before |-> Before]
    /\ UNCHANGED <<tree, iter, stored, codec, slotted, exec, nodes, yielded>>

\* fetch_page of an allocated page; the caller keeps the handle.
FetchPage(page_id) ==
    /\ last.err # "Panic"
    /\ Len(held) < MaxHandles
    /\ page_id \in DOMAIN page_table =>
           buffers[page_table[page_id]].usage_count < MaxUsage
    /\ \E r \in {fetch_page(BM, page_id)} :
       /\ SetBM(r.bm)
       /\ held' = IF r.err = "Ok" THEN Keep(held, r.buffer) ELSE held
       /\ last' = [op |-> "fetch_page", err |-> r.err, hit |-> page_id \in DOMAIN page_table,
                   page_id |-> page_id, buffer |-> r.buffer, before |-> Before]
    /\ UNCHANGED <<tree, iter, stored, written, codec, slotted, exec, nodes, yielded>>

\* The caller copies data into the page of its i-th handle and sets is_dirty.
WritePage(i, data) ==
    /\ last.err # "Panic"
    /\ i \in 1..Len(held)
    /\ SetBM(set_dirty(write_page(BM, held[i], data), held[i]))
    /\ written' = [written EXCEPT ![page_id_of(BM, held[i])] = data]
    /\ last' = [op |-> "write", err |-> "Ok"]
    /\ UNCHANGED <<tree, iter, held, stored, codec, slotted, exec, nodes, yielded>>

\* The caller drops its i-th handle.
DropHandle(i) ==
    /\ last.err # "Panic"
    /\ i \in 1..Len(held)
    /\ SetBM(rc_drop(BM, held[i]))
    /\ held' = RemoveAt(held, i)
    /\ last' = [op |-> "drop", err |-> "Ok"]
    /\ UNCHANGED <<tree, iter, stored, written, codec, slotted, exec, nodes, yielded>>

\* flush
Flush ==
    /\ last.err # "Panic"
    /\ \E r \in {flush(BM)} :
       /\ SetBM(r.bm)
       /\ last' = [op |-> "flush", err |-> r.err, before |-> Before]
    /\ UNCHANGED <<tree, iter, held, stored, written, codec, slotted, exec, nodes, yielded>>

NextBuf ==
    \/ CreatePage
    \/ \E page_id \in 0..(next_page_id - 1) : FetchPage(page_id)
    \/ \E i \in 1..MaxHandles, data \in PageData : WritePage(i, data)
    \/ \E i \in 1..MaxHandles : DropHandle(i)
    \/ Flush

SpecBuf == InitBuf /\ [][NextBuf]_vars

\* BufferPoolManager::new over DiskManager::new on the same store
FreshBM(pool_size) ==
    [buffers |-> [f \in 0..(pool_size - 1) |-> FrameDefault],
     next_victim_id |-> 0,
     page_table |-> [p \in {} |-> 0],
     heap_buffer |-> heap_buffer,
     next_page_id |-> next_page_id,
     peak |-> 0]

AllPinned == \A f \in DOMAIN buffers : buffers[f].rc > 0

-----------------------------------------------------------------------------
(* The disk manager alone, over a heap of DiskPages pages, driven by a     *)
(* caller that allocates, writes and reads pages.  written is the ghost    *)
(* record [first, allocated, data]: the next_page_id the manager was made  *)
(* with, the ids allocate_page returned, and the bytes last written to     *)
(* every page.                                                             *)

FirstPageIds == 0..1

InitDisk ==
    /\ buffers = [f \in 0..0 |-> FrameDefault]
    /\ next_victim_id = 0
    /\ page_table = [p \in {} |-> 0]
    /\ heap_buffer = [p \in 0..(DiskPages - 1) |-> ZeroPage]
    /\ next_page_id \in FirstPageIds
    /\ tree = NoTree
    /\ iter = NoIter
    /\ held = <<>>
    /\ stored = [k \in {} |-> 0]
    /\ last = [op |-> "none", err |-> "Ok"]
    /\ written = [first |-> next_page_id, allocated |-> <<>>,
                  data |-> [p \in 0..(DiskPages - 1) |-> ZeroPage]]
    /\ slotted = None
    /\ exec = None
    /\ nodes = None
    /\ yielded = <<>>
    /\ codec = None

\* DiskManager::allocate_page
DiskAllocatePage ==
    /\ last.err # "Panic"
    /\ next_page_id < DiskPages
    /\ \E r \in {allocate_page(next_page_id)} :
       /\ next_page_id' = r.next_page_id
       /\ written' = [written EXCEPT !.allocated = Append(@, r.page_id)]
       /\ last' = [op |-> "allocate", err |-> "Ok", page_id |-> r.page_id]
    /\ UNCHANGED heap_buffer
    /\ UNCHANGED <<buffers, next_victim_id, page_table, tree, iter, held, stored,
                   codec, slotted, exec, nodes, yielded>>

\* DiskManager::write_page_data
DiskWritePage(page_id, data) ==
    /\ last.err # "Panic"
    /\ \E r \in {write_page_data(heap_buffer, page_id, data)} :
       IF r = Panic
       THEN /\ last' = [op |-> "write", err |-> "Panic", page_id |-> page_id]
            /\ UNCHANGED <<heap_buffer, written>>
       ELSE /\ heap_buffer' = r.heap
            /\ written' = [written EXCEPT !.data[page_id] = data]
            /\ last' = [op |-> "write", err |-> "Ok", page_id |-> page_id]
    /\ UNCHANGED next_page_id
    /\ UNCHANGED <<buffers, next_victim_id, page_table, tree, iter, held, stored,
                   codec, slotted, exec, nodes, yielded>>

\* DiskManager::read_page_data
DiskReadPage(page_id) ==
    /\ last.err # "Panic"
    /\ \E r \in {read_page_data(heap_buffer, page_id)} :
       IF r = Panic
       THEN last' = [op |-> "read", err |-> "Panic", page_id |-> page_id]
       ELSE last' = [op |-> "read", err |-> "Ok", page_id |-> page_id, data |-> r.data]
    /\ UNCHANGED <<heap_buffer, next_page_id, written>>
    /\ UNCHANGED <<buffers, next_victim_id, page_table, tree, iter, held, stored,
                   codec, slotted, exec, nodes, yielded>>

NextDisk ==
    \/ DiskAllocatePage
    \/ \E page_id \in 0..DiskPages, data \in PageData : DiskWritePage(page_id, data)
    \/ \E page_id \in 0..DiskPages : DiskReadPage(page_id)

SpecDisk == InitDisk /\ [][NextDisk]_vars

-----------------------------------------------------------------------------
(* The codec, driven by a caller that encodes the elements of a tuple one  *)
(* after another into one byte vector and then decodes the vector element  *)
(* by element.                                                             *)

Fill(b, n) == [i \in 1..n |-> b]

Lengths == {0, 1, 7, 8, 9, 15, 16, 17}

Strings ==
    {Fill(b, n) : b \in {0, 9, 255}, n \in Lengths}
        \cup {<<8>>, <<0, 0, 0, 0, 0, 0, 0, 1>>, <<9, 9, 9, 9, 9, 9, 9, 9, 8>>,
              <<1, 2, 3, 4, 5, 6, 7, 8, 9, 10, 11, 12, 13, 14, 15, 16>>}

InitCodec ==
    /\ InitPool(1)
    /\ tree = NoTree
    /\ iter = NoIter
    /\ held = <<>>
    /\ stored = [k \in {} |-> 0]
    /\ last = [op |-> "none", err |-> "Ok"]
    /\ written = None
    /\ slotted = None
    /\ exec = None
    /\ nodes = None
    /\ yielded = <<>>
    /\ codec = [elems |-> <<>>, enc |-> <<>>, decoding |-> FALSE,
                rest |-> <<>>, dec |-> <<>>]

\* memcmpable::encode of one more element onto the vector
Encode(s) ==
    /\ ~codec.decoding
    /\ Len(codec.elems) < MaxElems
    /\ codec' = [codec EXCEPT !.elems = Append(@, s),
                              !.enc = memcmpable_encode(s, @)]
    /\ last' = [op |-> "encode", err |-> "Ok"]
    /\ UNCHANGED <<buffers, next_victim_id, page_table, heap_buffer, next_page_id,
                   tree, iter, held, stored, written, slotted, exec, nodes, yielded>>

\* The caller takes the whole vector as the input of the decoder.
StartDecode ==
    /\ ~codec.decoding
    /\ codec' = [codec EXCEPT !.decoding = TRUE, !.rest = codec.enc]
    /\ last' = [op |-> "start", err |-> "Ok"]
    /\ UNCHANGED <<buffers, next_victim_id, page_table, heap_buffer, next_page_id,
                   tree, iter, held, stored, written, slotted, exec, nodes, yielded>>

\* memcmpable::decode of the next element from the rest of the input
Decode ==
    /\ codec.decoding
    /\ codec.rest # <<>>
    /\ last.err # "Panic"
    /\ \E d \in {memcmpable_decode(codec.rest, <<>>)} :
       IF d = Panic
       THEN /\ last' = [op |-> "decode", err |-> "Panic"]
            /\ UNCHANGED codec
       ELSE /\ last' = [op |-> "decode", err |-> "Ok"]
            /\ codec' = [codec EXCEPT !.rest = d.src, !.dec = Append(@, d.dst)]
    /\ UNCHANGED <<buffers, next_victim_id, page_table, heap_buffer, next_page_id,
                   tree, iter, held, stored, written, slotted, exec, nodes, yielded>>

NextCodec ==
    \/ \E s \in Strings : Encode(s)
    \/ StartDecode
    \/ Decode

SpecCodec == InitCodec /\ [][NextCodec]_vars

(* The order of encoded tuples: a caller encodes the elements of two       *)
(* tuples, left and right, one element at a time into two byte vectors.    *)

\* Ord of two numbers
NumCmp(x, y) == IF x < y THEN "Less" ELSE IF x = y THEN "Equal" ELSE "Greater"

\* The lexicographic Ord of two sequences whose elements are ordered by Cmp:
\* the first position that differs decides, then the lengths.
LexCmp(x, y, Cmp(_, _)) ==
    LET n == Min(Len(x), Len(y))
        d == {i \in 1..n : Cmp(x[i], y[i]) # "Equal"}
    IN  IF d = {} THEN NumCmp(Len(x), Len(y))
        ELSE LET i == CHOOSE i \in d : \A j \in d : i <= j
             IN  Cmp(x[i], y[i])

\* <[u8]>::cmp on two byte sequences
SeqCmp(x, y) == LexCmp(x, y, NumCmp)

\* The element-by-element order of two tuples of byte strings
TupleCmp(a, b) == LexCmp(a, b, SeqCmp)

OrderStrings ==
    {<<>>, <<0>>, Fill(0, 8), Fill(0, 9), Fill(0, 16), <<9>>, Fill(9, 8), Fill(9, 9)}

InitOrder ==
    /\ InitPool(1)
    /\ tree = NoTree
    /\ iter = NoIter
    /\ held = <<>>
    /\ stored = [k \in {} |-> 0]
    /\ last = [op |-> "none", err |-> "Ok"]
    /\ written = None
    /\ slotted = None
    /\ exec = None
    /\ nodes = None
    /\ yielded = <<>>
    /\ codec = [left |-> <<>>, enc_left |-> <<>>, right |-> <<>>, enc_right |-> <<>>]

\* One more element of the left tuple goes through the closure of tuple::encode.
EncodeLeft(s) ==
    /\ Len(codec.left) < MaxElems
    /\ codec' = [codec EXCEPT !.left = Append(@, s),
                              !.enc_left = memcmpable_encode(s, @)]
    /\ last' = [op |-> "encode", err |-> "Ok"]
    /\ UNCHANGED <<buffers, next_victim_id, page_table, heap_buffer, next_page_id,
                   tree, iter, held, stored, written, slotted, exec, nodes, yielded>>

\* One more element of the right tuple goes through the closure of tuple::encode.
EncodeRight(s) ==
    /\ Len(codec.right) < MaxElems
    /\ codec' = [codec EXCEPT !.right = Append(@, s),
                              !.enc_right = memcmpable_encode(s, @)]
    /\ last' = [op |-> "encode", err |-> "Ok"]
    /\ UNCHANGED <<buffers, next_victim_id, page_table, heap_buffer, next_page_id,
                   tree, iter, held, stored, written, slotted, exec, nodes, yielded>>

NextOrder ==
    \/ \E s \in OrderStrings : EncodeLeft(s)
    \/ \E s \in OrderStrings : EncodeRight(s)

SpecOrder == InitOrder /\ [][NextOrder]_vars

-----------------------------------------------------------------------------
(* A Slotted alone, driven by a caller that inserts, resizes and removes   *)
(* slots at valid indices and copies bytes into a slot right after it was  *)
(* inserted or resized.  slotted.want is the ghost record of the bytes     *)
(* last written into every slot, in logical order.                         *)

SlotBufs == {<<>>, <<1>>, <<2, 3>>}

InsertAt(seq, index, x) ==
    SubSeq(seq, 1, index) \o <<x>> \o SubSeq(seq, index + 1, Len(seq))

InitSlotted ==
    /\ InitPool(1)
    /\ tree = NoTree
    /\ iter = NoIter
    /\ held = <<>>
    /\ stored = [k \in {} |-> 0]
    /\ last = [op |-> "none", err |-> "Ok"]
    /\ written = None
    /\ codec = None
    /\ exec = None
    /\ nodes = None
    /\ yielded = <<>>
    /\ slotted = [s |-> Slotted_initialize([num_slots |-> 0, free_space_offset |-> 0,
                                            body |-> Zeros(SlotCapacity)]),
                  want |-> <<>>]

\* slotted.insert(index, buf.len()) and, when it fits, slotted[index].copy_from_slice(buf)
SlottedInsert(index, buf) ==
    /\ last.err # "Panic"
    /\ index <= slotted.s.num_slots
    /\ \E r \in {Slotted_insert(slotted.s, index, Len(buf))} :
       IF r = None
       THEN /\ last' = [op |-> "insert", err |-> "None",
                        index |-> index, len |-> Len(buf)]
            /\ UNCHANGED slotted
       ELSE \E w \in {Slotted_write(r, index, buf)} :
            IF w = Panic
            THEN /\ last' = [op |-> "insert", err |-> "Panic",
                             index |-> index, len |-> Len(buf)]
                 /\ UNCHANGED slotted
            ELSE /\ last' = [op |-> "insert", err |-> "Ok",
                             index |-> index, len |-> Len(buf)]
                 /\ slotted' = [s |-> w, want |-> InsertAt(slotted.want, index, buf)]
    /\ UNCHANGED <<buffers, next_victim_id, page_table, heap_buffer, next_page_id,
                   tree, iter, held, stored, written, codec, exec, nodes, yielded>>

\* slotted.resize(index, buf.len()) and, when it fits, slotted[index].copy_from_slice(buf)
SlottedResize(index, buf) ==
    /\ last.err # "Panic"
    /\ index < slotted.s.num_slots
    /\ \E r \in {Slotted_resize(slotted.s, index, Len(buf))} :
       IF r = None
       THEN /\ last' = [op |-> "resize", err |-> "None",
                        index |-> index, len |-> Len(buf)]
            /\ UNCHANGED slotted
       ELSE IF r = Panic
       THEN /\ last' = [op |-> "resize", err |-> "Panic",
                        index |-> index, len |-> Len(buf)]
            /\ UNCHANGED slotted
       ELSE \E w \in {Slotted_write(r, index, buf)} :
            IF w = Panic
            THEN /\ last' = [op |-> "resize", err |-> "Panic",
                             index |-> index, len |-> Len(buf)]
                 /\ UNCHANGED slotted
            ELSE /\ last' = [op |-> "resize", err |-> "Ok",
                             index |-> index, len |-> Len(buf)]
                 /\ slotted' = [s |-> w, want |-> [slotted.want EXCEPT ![index + 1] = buf]]
    /\ UNCHANGED <<buffers, next_victim_id, page_table, heap_buffer, next_page_id,
                   tree, iter, held, stored, written, codec, exec, nodes, yielded>>

\* slotted.remove(index)
SlottedRemove(index) ==
    /\ last.err # "Panic"
    /\ index < slotted.s.num_slots
    /\ \E r \in {Slotted_remove(slotted.s, index)} :
       IF r = Panic
       THEN /\ last' = [op |-> "remove", err |-> "Panic", index |-> index]
            /\ UNCHANGED slotted
       ELSE /\ last' = [op |-> "remove", err |-> "Ok", index |-> index]
            /\ slotted' = [s |-> r, want |-> RemoveAt(slotted.want, index + 1)]
    /\ UNCHANGED <<buffers, next_victim_id, page_table, heap_buffer, next_page_id,
                   tree, iter, held, stored, written, codec, exec, nodes, yielded>>

SlotIndexes == 0..(SlotCapacity \div PointerSize)

NextSlotted ==
    \/ \E index \in SlotIndexes, buf \in SlotBufs : SlottedInsert(index, buf)
    \/ \E index \in SlotIndexes, buf \in SlotBufs : SlottedResize(index, buf)
    \/ \E index \in SlotIndexes : SlottedRemove(index)

SpecSlotted == InitSlotted /\ [][NextSlotted]_vars

-----------------------------------------------------------------------------
(* table.rs, query.rs and the expressions of lang.rs.  The B+Tree holds    *)
(* the encoded key and the encoded rest of a record as byte strings with   *)
(* an empty run; a record and a decoded tuple are sequences of byte        *)
(* sequences.                                                              *)

ToBytes(seq) == Bytes(seq, 0, 0)

ToSeq(bytes) == bytes.pre \o [i \in 1..bytes.n |-> bytes.fill]

\* Table::insert without unique indices: [bm, err]
table_insert(bm, meta_page_id, num_key_elems, record) ==
    LET key == tuple_encode(SubSeq(record, 1, num_key_elems), <<>>)
        value == tuple_encode(SubSeq(record, num_key_elems + 1, Len(record)), <<>>)
    IN  btree_insert(bm, meta_page_id, ToBytes(key), ToBytes(value))

TupleStart == [kind |-> "Start"]
TupleKey(tuple) == [kind |-> "Key", tuple |-> tuple]

\* TupleSearchMode::encode
tuple_search_mode_encode(mode) ==
    IF mode.kind = "Start" THEN SearchStart
    ELSE SearchKey(ToBytes(tuple_encode(mode.tuple, <<>>)))

\* WhileExpr::eval
while_eval(expr, key) ==
    LET cmp == TupleCmp(key, expr.other) IN
    CASE expr.op = "True" -> TRUE
      [] expr.op = "Eq" -> cmp = "Equal"
      [] expr.op = "Lt" -> cmp = "Less"
      [] expr.op = "Lte" -> cmp = "Less" \/ cmp = "Equal"
      [] expr.op = "Gt" -> cmp = "Greater"
      [] expr.op = "Gte" -> cmp = "Greater" \/ cmp = "Equal"

\* BytesExpr::eval; the column is taken to exist
bytes_eval(expr, record) ==
    IF expr.kind = "Literal" THEN expr.literal ELSE record[expr.column + 1]

\* BoolExpr::eval
RECURSIVE bool_eval(_, _)
bool_eval(expr, record) ==
    CASE expr.op = "True" -> TRUE
      [] expr.op = "False" -> FALSE
      [] expr.op = "And" -> bool_eval(expr.l, record) /\ bool_eval(expr.r, record)
      [] expr.op = "Or" -> bool_eval(expr.l, record) \/ bool_eval(expr.r, record)
      [] expr.op = "Not" -> ~bool_eval(expr.e, record)
      [] OTHER ->
            LET cmp == SeqCmp(bytes_eval(expr.l, record), bytes_eval(expr.r, record)) IN
            CASE expr.op = "Eq" -> cmp = "Equal"
              [] expr.op = "Lt" -> cmp = "Less"
              [] expr.op = "Lte" -> cmp # "Greater"
              [] expr.op = "Gt" -> cmp = "Greater"
              [] expr.op = "Gte" -> cmp # "Less"

\* SeqScan::start: [bm, err, iter]
seq_scan_start(bm, plan) ==
    btree_search(bm, plan.table_meta_page_id, tuple_search_mode_encode(plan.search_mode))

\* Mutant: a row that fails the while-condition is skipped and the scan goes on.
RECURSIVE exec_seq_scan_next_skips(_, _, _)
exec_seq_scan_next_skips(bm, table_iter, while_cond) ==
    Let(iter_next(bm, table_iter), LAMBDA n :
    IF n.err # "Ok" \/ n.value = None
    THEN [bm |-> n.bm, err |-> n.err, iter |-> n.iter, value |-> None]
    ELSE
    Let(tuple_decode(ToSeq(n.value.key), <<>>), LAMBDA pkey :
    IF pkey = Panic
    THEN [bm |-> n.bm, err |-> "Panic", iter |-> n.iter, value |-> None]
    ELSE IF ~while_eval(while_cond, pkey.elems)
    THEN exec_seq_scan_next_skips(n.bm, n.iter, while_cond)
    ELSE
    Let(tuple_decode(ToSeq(n.value.value), pkey.elems), LAMBDA tuple :
    IF tuple = Panic
    THEN [bm |-> n.bm, err |-> "Panic", iter |-> n.iter, value |-> None]
    ELSE [bm |-> n.bm, err |-> "Ok", iter |-> n.iter,
          value |-> [tuple |-> tuple.elems]])))

\* ExecSeqScan::next: [bm, err, iter, value], value None or [tuple]
exec_seq_scan_next(bm, table_iter, while_cond) ==
    Let(iter_next(bm, table_iter), LAMBDA n :
    IF n.err # "Ok" \/ n.value = None
    THEN [bm |-> n.bm, err |-> n.err, iter |-> n.iter, value |-> None]
    ELSE
    Let(tuple_decode(ToSeq(n.value.key), <<>>), LAMBDA pkey :
    IF pkey = Panic
    THEN [bm |-> n.bm, err |-> "Panic", iter |-> n.iter, value |-> None]
    ELSE IF ~while_eval(while_cond, pkey.elems)
    THEN [bm |-> n.bm, err |-> "Ok", iter |-> n.iter, value |-> None]
    ELSE
    Let(tuple_decode(ToSeq(n.value.value), pkey.elems), LAMBDA tuple :
    IF tuple = Panic
    THEN [bm |-> n.bm, err |-> "Panic", iter |-> n.iter, value |-> None]
    ELSE [bm |-> n.bm, err |-> "Ok", iter |-> n.iter,
          value |-> [tuple |-> tuple.elems]])))

\* ExecFilter::next over an ExecSeqScan: [bm, err, iter, value]
RECURSIVE exec_filter_next(_, _, _, _)
exec_filter_next(bm, table_iter, while_cond, cond) ==
    Let(exec_seq_scan_next(bm, table_iter, while_cond), LAMBDA r :
    IF r.err # "Ok" \/ r.value = None THEN r
    ELSE IF bool_eval(cond, r.value.tuple) THEN r
    ELSE exec_filter_next(r.bm, r.iter, while_cond, cond))

-----------------------------------------------------------------------------
(* A table with one key column, filled by Table::insert, and a caller that *)
(* runs a Filter over a SeqScan on it as QueryRequest::execute does: it    *)
(* calls next until the first None.  stored maps the key tuple of every    *)
(* inserted record to the record; exec is [plan, out, done], the plan, the *)
(* tuples yielded so far and whether None was returned.                    *)

\* A key of KeyPad + 1 bytes that starts with the byte b.
LongKey(b) == <<b>> \o [i \in 1..KeyPad |-> 97]

Records ==
    {<<LongKey(118), <<69>>>>, <<LongKey(119), <<68>>>>, <<LongKey(120), <<66>>>>,
     <<LongKey(121), <<67>>>>, <<LongKey(122), <<65>>>>}

SearchModes == {TupleStart, TupleKey(<<LongKey(119)>>), TupleKey(<<<<119>>>>),
                TupleKey(<<LongKey(122) \o <<0>>>>)}

WhileExprs ==
    {[op |-> "True", other |-> <<>>], [op |-> "Lt", other |-> <<LongKey(121)>>],
     [op |-> "Eq", other |-> <<LongKey(120)>>], [op |-> "Gte", other |-> <<LongKey(120)>>]}

BoolExprs ==
    {[op |-> "True"],
     [op |-> "Lt", l |-> [kind |-> "Column", column |-> 1],
                   r |-> [kind |-> "Literal", literal |-> <<68>>]]}

InitQuery ==
    /\ InitPool(PoolSize)
    /\ tree = NoTree
    /\ iter = NoIter
    /\ held = <<>>
    /\ stored = [k \in {} |-> 0]
    /\ last = NoCall
    /\ written = None
    /\ slotted = None
    /\ exec = None
    /\ nodes = None
    /\ yielded = <<>>
    /\ codec = None

\* Table::insert of a record with one key element
TableInsert(record) ==
    /\ tree # NoTree
    /\ exec = None
    /\ last.inserts < MaxRows
    /\ last.err # "Panic"
    /\ \E r \in {table_insert(BM, tree.meta_page_id, 1, record)} :
       /\ SetBM(r.bm)
       /\ stored' = IF r.err = "Ok"
                    THEN [k \in DOMAIN stored \cup {SubSeq(record, 1, 1)} |->
                             IF k = SubSeq(record, 1, 1) THEN record ELSE stored[k]]
                    ELSE stored
       /\ last' = [op |-> "insert", err |-> r.err, inserts |-> last.inserts + 1,
                   pinops |-> last.pinops]
    /\ UNCHANGED <<tree, iter, held, written, codec, slotted, exec, nodes, yielded>>

\* Filter::start over SeqScan::start
QueryStart(search_mode, while_cond, cond) ==
    /\ tree # NoTree
    /\ exec = None
    /\ last.err # "Panic"
    /\ \E r \in {seq_scan_start(BM, [table_meta_page_id |-> tree.meta_page_id,
                                    search_mode |-> search_mode])} :
       /\ SetBM(r.bm)
       /\ iter' = IF r.err = "Ok" THEN r.iter ELSE NoIter
       /\ exec' = IF r.err = "Ok"
                  THEN [search_mode |-> search_mode, while_cond |-> while_cond,
                        cond |-> cond, out |-> <<>>, done |-> FALSE]
                  ELSE None
       /\ last' = [op |-> "start", err |-> r.err, inserts |-> last.inserts,
                   pinops |-> last.pinops]
    /\ UNCHANGED <<tree, held, stored, written, codec, slotted, nodes, yielded>>

\* ExecFilter::next, called until it has returned None
QueryNext ==
    /\ exec # None
    /\ ~exec.done
    /\ last.err = "Ok"
    /\ \E r \in {exec_filter_next(BM, iter, exec.while_cond, exec.cond)} :
       /\ SetBM(r.bm)
       /\ iter' = r.iter
       /\ exec' = IF r.err # "Ok" THEN exec
                  ELSE IF r.value = None THEN [exec EXCEPT !.done = TRUE]
                  ELSE [exec EXCEPT !.out = Append(@, r.value.tuple)]
       /\ last' = [op |-> "next", err |-> r.err, inserts |-> last.inserts,
                   pinops |-> last.pinops]
    /\ UNCHANGED <<tree, held, stored, written, codec, slotted, nodes, yielded>>

NextQuery ==
    \/ Create
    \/ \E record \in Records : TableInsert(record)
    \/ \E search_mode \in SearchModes, while_cond \in WhileExprs, cond \in BoolExprs :
           QueryStart(search_mode, while_cond, cond)
    \/ QueryNext

SpecQuery == InitQuery /\ [][NextQuery]_vars

-----------------------------------------------------------------------------
(* A single node driven as insert_internal drives it: the pair is inserted *)
(* at the slot search_slot_id gives and, when Leaf::insert or              *)
(* Branch::insert returns None, split_insert is called with a fresh        *)
(* sibling.  nodes is [kind, node, split, panicked]: the node the caller    *)
(* goes on with, for the last call, when it split, the node before the     *)
(* call, the new pair and what split_insert returned, and whether a call   *)
(* has panicked.  Keys are one byte b followed by a run of zeros; the      *)
(* longest gives a pair of exactly max_pair_size bytes.                    *)

NodeKey(b, pad) == Bytes(<<b>>, 0, pad)

EmptyValue == Bytes(<<>>, 0, 0)

\* The longest runs: a leaf pair with an empty value and a branch pair of
\* max_pair_size bytes.
LeafMaxPad == leaf_max_pair_size - PairBytesLen(1, 0) - 2
BranchMaxPad == branch_max_pair_size - PairBytesLen(1, PageIdSize) - 2

LeafKeys0 ==
    {NodeKey(b, pad) : b \in 1..NodeKeyBytes,
                       pad \in {0, MidPad, LeafMaxPad - 1, LeafMaxPad}}

BranchKeys0 ==
    {NodeKey(b, pad) : b \in 1..NodeKeyBytes,
                       pad \in {0, MidPad, BranchMaxPad - 1, BranchMaxPad}}

\* The page a key of the branch comes with.
NodePageId(key) == key.pre[1] * PAGE_SIZE + key.n + 1

EmptyBranch == [node_type |-> NODE_TYPE_BRANCH, right_child |-> 0, slots |-> <<>>]

InitNodes ==
    /\ InitPool(1)
    /\ tree = NoTree
    /\ iter = NoIter
    /\ held = <<>>
    /\ stored = [k \in {} |-> 0]
    /\ last = NoCall
    /\ written = None
    /\ slotted = None
    /\ exec = None
    /\ codec = None
    /\ yielded = <<>>
    /\ \/ nodes = [kind |-> "leaf", node |-> leaf_initialize, split |-> None, panicked |-> FALSE]
       \/ \E key \in BranchKeys0 :
             nodes = [kind |-> "branch",
                      node |-> branch_initialize(key, NodePageId(key), 0).node,
                      split |-> None, panicked |-> FALSE]

\* The leaf arm of insert_internal on the node: Leaf::insert, else split_insert
LeafPut(key, value) ==
    /\ nodes.kind = "leaf"
    /\ ~nodes.panicked
    /\ \E r \in {search_slot_id(nodes.node, key)} :
       /\ ~r.ok
       /\ \E i \in {leaf_insert(nodes.node, r.idx, key, value)} :
          IF i # None /\ i # Panic
          THEN nodes' = [nodes EXCEPT !.node = i.node, !.split = None]
          ELSE \E s \in {IF i = Panic THEN Panic
                         ELSE leaf_split_insert(nodes.node, leaf_initialize, key, value)} :
                  nodes' = [nodes EXCEPT
                               !.node = IF s = Panic THEN @ ELSE s.self,
                               !.panicked = (s = Panic),
                               !.split = [before |-> nodes.node, key |-> key,
                                          value |-> value, result |-> s]]
    /\ UNCHANGED <<buffers, next_victim_id, page_table, heap_buffer, next_page_id,
                   tree, iter, held, stored, last, written, codec, slotted, exec,
                   yielded>>

\* The branch arm of insert_internal on the node: Branch::insert, else split_insert
BranchPut(key, page_id) ==
    /\ nodes.kind = "branch"
    /\ ~nodes.panicked
    /\ \E r \in {search_slot_id(nodes.node, key)} :
       /\ ~r.ok
       /\ \E i \in {branch_insert(nodes.node, r.idx, key, page_id)} :
          IF i # None /\ i # Panic
          THEN nodes' = [nodes EXCEPT !.node = i.node, !.split = None]
          ELSE \E s \in {IF i = Panic THEN Panic
                         ELSE branch_split_insert(nodes.node, EmptyBranch, key, page_id)} :
                  nodes' = [nodes EXCEPT
                               !.node = IF s = Panic THEN @ ELSE s.self,
                               !.panicked = (s = Panic),
                               !.split = [before |-> nodes.node, key |-> key,
                                          value |-> page_id, result |-> s]]
    /\ UNCHANGED <<buffers, next_victim_id, page_table, heap_buffer, next_page_id,
                   tree, iter, held, stored, last, written, codec, slotted, exec,
                   yielded>>

NextNodes ==
    \/ \E key \in LeafKeys0 : LeafPut(key, EmptyValue)
    \/ \E key \in BranchKeys0 : BranchPut(key, NodePageId(key))

SpecNodes == InitNodes /\ [][NextNodes]_vars

-----------------------------------------------------------------------------
(* Observations of the tree *)

\* The bytes of page p as the program sees them: the resident copy, else the disk's.
LogicalPage(p) ==
    IF p \in DOMAIN page_table THEN buffers[page_table[p]].buffer.page ELSE heap_buffer[p]

\* search(mode) followed by next(): [err, value]
SearchNext(mode) ==
    LET s == btree_search(BM, tree.meta_page_id, mode) IN
    IF s.err # "Ok" THEN [err |-> s.err, value |-> None]
    ELSE LET n == iter_next(s.bm, s.iter) IN [err |-> n.err, value |-> n.value]

\* search(mode) and next() until None, at most `fuel` times: [err, pairs]
RECURSIVE Drain(_, _, _, _)
Drain(bm, it, acc, fuel) ==
    LET n == iter_next(bm, it) IN
    IF n.err # "Ok" THEN [err |-> n.err, pairs |-> acc]
    ELSE IF n.value = None THEN [err |-> "Ok", pairs |-> acc]
    ELSE IF fuel = 0 THEN [err |-> "Endless", pairs |-> acc]
    ELSE Drain(n.bm, n.iter, Append(acc, n.value), fuel - 1)

Scan(mode) ==
    LET s == btree_search(BM, tree.meta_page_id, mode) IN
    IF s.err # "Ok" THEN [err |-> s.err, pairs |-> <<>>]
    ELSE Drain(s.bm, s.iter, <<>>, Cardinality(DOMAIN stored) + 1)

\* The root recorded in the meta page.
RootPageId == meta_root_page_id(LogicalPage(tree.meta_page_id))

\* Levels from page p down to a leaf, along the leftmost path.
RECURSIVE HeightFrom(_)
HeightFrom(p) ==
    LET node == LogicalPage(p) IN
    IF node.node_type = NODE_TYPE_LEAF THEN 1 ELSE 1 + HeightFrom(child_at(node, 0))

TreeHeight == HeightFrom(RootPageId)

\* The leaf a key is routed to by the branches.
RECURSIVE RoutedLeaf(_, _)
RoutedLeaf(p, key) ==
    LET node == LogicalPage(p) IN
    IF node.node_type = NODE_TYPE_LEAF THEN p ELSE RoutedLeaf(search_child(node, key), key)

\* Every allocated page, as the program sees it.
TreePages == [p \in 0..(next_page_id - 1) |-> LogicalPage(p)]

BranchPages == {p \in DOMAIN TreePages : p # tree.meta_page_id /\ TreePages[p] # ZeroPage
                                         /\ TreePages[p].node_type = NODE_TYPE_BRANCH}
LeafPages == {p \in DOMAIN TreePages : p # tree.meta_page_id /\ TreePages[p] # ZeroPage
                                       /\ TreePages[p].node_type = NODE_TYPE_LEAF}

\* The keys of a leaf, in slot order.
LeafKeys(p) == [i \in 1..num_pairs(TreePages[p]) |-> TreePages[p].slots[i].key]

\* The leaves met from leaf p on by following next_page_id, at most fuel of them.
RECURSIVE ChainNext(_, _)
ChainNext(p, fuel) ==
    IF p = INVALID_PAGE_ID \/ fuel = 0 \/ p \notin LeafPages THEN <<>>
    ELSE <<p>> \o ChainNext(TreePages[p].next_page_id, fuel - 1)

\* The leaves met from leaf p on by following prev_page_id, at most fuel of them.
RECURSIVE ChainPrev(_, _)
ChainPrev(p, fuel) ==
    IF p = INVALID_PAGE_ID \/ fuel = 0 \/ p \notin LeafPages THEN <<>>
    ELSE <<p>> \o ChainPrev(TreePages[p].prev_page_id, fuel - 1)

\* The keys of the leaves of a chain, leaf after leaf.
RECURSIVE ChainKeys(_)
ChainKeys(chain) ==
    IF chain = <<>> THEN <<>> ELSE LeafKeys(Head(chain)) \o ChainKeys(Tail(chain))

Reverse(seq) == [i \in 1..Len(seq) |-> seq[Len(seq) + 1 - i]]

\* The keys of the leaves of a chain, each leaf from its last slot to its first.
RECURSIVE ChainKeysDescending(_)
ChainKeysDescending(chain) ==
    IF chain = <<>> THEN <<>>
    ELSE Reverse(LeafKeys(Head(chain))) \o ChainKeysDescending(Tail(chain))

\* The leaf reached from page p by taking the first child of every branch.
RECURSIVE LeftmostLeaf(_)
LeftmostLeaf(p) ==
    IF TreePages[p].node_type = NODE_TYPE_LEAF THEN p
    ELSE LeftmostLeaf(child_at(TreePages[p], 0))

\* The leaf reached from page p by taking right_child of every branch.
RECURSIVE RightmostLeaf(_)
RightmostLeaf(p) ==
    IF TreePages[p].node_type = NODE_TYPE_LEAF THEN p
    ELSE RightmostLeaf(TreePages[p].right_child)

\* The depths at which the leaves below page p lie, p itself being at depth d.
RECURSIVE LeafDepths(_, _)
LeafDepths(p, d) ==
    LET node == LogicalPage(p) IN
    IF node.node_type = NODE_TYPE_LEAF THEN {d}
    ELSE UNION {LeafDepths(child_at(node, i), d + 1) : i \in 0..num_pairs(node)}

TreeLeafDepths == LeafDepths(RootPageId, 1)

\* The keys stored in the leaves below page p.
RECURSIVE SubtreeKeys(_)
SubtreeKeys(p) ==
    LET node == TreePages[p] IN
    IF node.node_type = NODE_TYPE_LEAF THEN {node.slots[i].key : i \in 1..num_pairs(node)}
    ELSE UNION {SubtreeKeys(child_at(node, i)) : i \in 0..num_pairs(node)}

\* The branches at and below page p.
RECURSIVE BranchesFrom(_)
BranchesFrom(p) ==
    LET node == TreePages[p] IN
    IF node.node_type = NODE_TYPE_LEAF THEN {}
    ELSE {p} \cup UNION {BranchesFrom(child_at(node, i)) : i \in 0..num_pairs(node)}

FreeFrames == Cardinality({f \in DOMAIN buffers : buffers[f].rc = 0})

StoredPair(k) == [key |-> k, value |-> stored[k]]

\* The smallest stored key that is not less than q, as a pair; None without one.
FirstAtLeast(q) ==
    LET C == {k \in DOMAIN stored : BytesCmp(k, q) # "Less"} IN
    IF C = {} THEN None
    ELSE StoredPair(CHOOSE k \in C : \A j \in C : BytesCmp(k, j) # "Greater")

-----------------------------------------------------------------------------
(* Claims *)

\* C1: after any sequence of inserts, for every key whose insert returned Ok,
\* search(Key(k)) followed by next() returns exactly (k, v) with v the value
\* inserted with k, whatever leaf, branch and root splits happened.
C1_SearchFindsInserted ==
    tree # NoTree =>
        \A k \in DOMAIN stored :
            SearchNext(SearchKey(k)) = [err |-> "Ok", value |-> StoredPair(k)]

\* A tree of three levels (leaf, branch and root splits happened) holding five keys.
C1_Witness ==
    /\ tree # NoTree
    /\ TreeHeight = 3
    /\ Cardinality(BranchPages) >= 3
    /\ Cardinality(DOMAIN stored) >= 5
    /\ \A k \in DOMAIN stored : SearchNext(SearchKey(k)).value = StoredPair(k)

\* C2: next() repeated on the iterator of search(Start) yields every stored pair
\* exactly once, in strictly ascending key order, and then None.
C2_ScanYieldsAllAscending ==
    tree # NoTree =>
        LET r == Scan(SearchStart) IN
        /\ r.err = "Ok"
        /\ Len(r.pairs) = Cardinality(DOMAIN stored)
        /\ \A i \in 1..Len(r.pairs) :
              /\ r.pairs[i].key \in DOMAIN stored
              /\ r.pairs[i] = StoredPair(r.pairs[i].key)
        /\ \A i \in 1..(Len(r.pairs) - 1) :
              BytesCmp(r.pairs[i].key, r.pairs[i + 1].key) = "Less"

\* A scan that crosses at least three leaf boundaries.
C2_Witness ==
    /\ tree # NoTree
    /\ Cardinality(LeafPages) >= 4
    /\ Len(Scan(SearchStart).pairs) >= 5

\* C3: for any query key q, stored or not, the first next() after search(Key(q))
\* yields the pair of the smallest stored key >= q, and None when there is none.
C3_SearchPositionsAtFirstAtLeast ==
    tree # NoTree =>
        \A q \in ProbeKeys :
            SearchNext(SearchKey(q)) = [err |-> "Ok", value |-> FirstAtLeast(q)]

\* A query routed to a leaf whose keys are all smaller, answered from the next leaf.
C3_Witness ==
    /\ tree # NoTree
    /\ \E q \in ProbeKeys \ DOMAIN stored :
          LET leaf == LogicalPage(RoutedLeaf(RootPageId, q)) IN
          /\ num_pairs(leaf) > 0
          /\ search_slot_id(leaf, q).idx = num_pairs(leaf)
          /\ leaf.next_page_id # INVALID_PAGE_ID
          /\ SearchNext(SearchKey(q)).value # None
          /\ SearchNext(SearchKey(q)).value = FirstAtLeast(q)

\* C4: an insert of a key that is already stored returns DuplicateKey (it can
\* only fail earlier, with NoFreeBuffer, when fewer frames are free than the
\* descent pins) and leaves every page and the page allocator as they were;
\* the key still maps to the value first inserted.
C4_DuplicateKeyLeavesTreeUntouched ==
    [][(last'.op = "insert" /\ last'.key \in DOMAIN stored) =>
          /\ last'.err \in {"DuplicateKey", "NoFreeBuffer"}
          /\ (FreeFrames >= TreeHeight + 1 => last'.err = "DuplicateKey")
          /\ TreePages' = TreePages
          /\ next_page_id' = next_page_id
          /\ stored' = stored
          /\ last'.value # stored[last'.key]]_vars

\* A DuplicateKey returned by a tree that has split.
C4_Witness ==
    /\ last.op = "insert"
    /\ last.err = "DuplicateKey"
    /\ TreeHeight >= 2
    /\ SearchNext(SearchKey(last.key)).value = StoredPair(last.key)
    /\ stored[last.key] # last.value

\* C5: when insert returns NoFreeBuffer no page has been modified and no page
\* allocated, whatever the pool size and the handles the caller holds.
C5_NoFreeBufferLeavesTreeUntouched ==
    [][(last'.op = "insert" /\ last'.err = "NoFreeBuffer") =>
          /\ TreePages' = TreePages
          /\ next_page_id' = next_page_id]_vars

\* A NoFreeBuffer from an insert into a tree of two levels while the caller holds a handle.
C5_Witness ==
    /\ last.op = "insert"
    /\ last.err = "NoFreeBuffer"
    /\ TreeHeight >= 2
    /\ (held # <<>> \/ iter # NoIter)

-----------------------------------------------------------------------------
(* The buffer pool *)

\* C6: for every pool size from 1 up and every sequence of create_page, fetch_page,
\* writes through a held handle followed by setting is_dirty, and handle drops, a
\* successful fetch_page(p) returns the buffer of page p, and its bytes are the bytes
\* most recently written to p, whether or not p was evicted and reloaded in between.
\* The call the caller has just made is checked on its result, and so is the call
\* it could make next on every page.
C6_FetchReturnsLastWritten ==
    /\ (last.op = "fetch_page" /\ last.err = "Ok") =>
           /\ page_id_of(BM, last.buffer) = last.page_id
           /\ page_of(BM, last.buffer) = written[last.page_id]
    /\ \A p \in DOMAIN written :
           LET r == fetch_page(BM, p) IN
           /\ r.err \in {"Ok", "NoFreeBuffer"}
           /\ r.err = "Ok" =>
                  /\ page_id_of(r.bm, r.buffer) = p
                  /\ page_of(r.bm, r.buffer) = written[p]

\* A pool of one frame has just reloaded a page that was written and then evicted.
C6_Witness ==
    /\ last.op = "fetch_page"
    /\ last.err = "Ok"
    /\ ~last.hit
    /\ pool_size_of(buffers) = 1
    /\ written[last.page_id] \in PageData

\* C7: in every reachable state a frame whose usage counter is 0 has no handle
\* outside the pool, so the victim evict returns is unpinned: no call panics on
\* Rc::get_mut(..).unwrap(), and fetch_page and create_page leave the page_id, the
\* bytes and the dirty flag of every buffer a caller holds as they were.
C7_EvictReturnsUnpinned ==
    [][ /\ \A f \in DOMAIN buffers' : buffers'[f].usage_count = 0 => buffers'[f].rc = 0
        /\ last'.err # "Panic"
        /\ last'.op \in {"fetch_page", "create_page"} =>
               \A f \in DOMAIN buffers :
                   buffers[f].rc > 0 => buffers'[f].buffer = buffers[f].buffer ]_vars

\* A call has just taken a victim while the caller held a written page in another frame.
C7_Witness ==
    /\ last.op \in {"fetch_page", "create_page"}
    /\ last.err = "Ok"
    /\ ~last.hit
    /\ last.before.pinned >= 1
    /\ \E f \in DOMAIN buffers :
           /\ f # last.buffer
           /\ buffers[f].rc > 0
           /\ buffers[f].buffer.page \in PageData

\* C8: create_page, and fetch_page on a page that is not resident, return
\* NoFreeBuffer exactly when every frame of the pool is pinned at the time of the
\* call; with one frame unpinned they succeed, whatever the usage counters and
\* next_victim_id are.  The call just made is checked against the number of frames
\* pinned before it, and so is the call the caller could make next.
C8_NoFreeBufferIffAllPinned ==
    /\ (last.op \in {"fetch_page", "create_page"} /\ ~last.hit) =>
           /\ last.err \in {"Ok", "NoFreeBuffer"}
           /\ (last.err = "NoFreeBuffer") = (last.before.pinned = pool_size_of(buffers))
    /\ LET c == create_page(BM) IN
           /\ c.err \in {"Ok", "NoFreeBuffer"}
           /\ (c.err = "NoFreeBuffer") = AllPinned
    /\ \A p \in (DOMAIN written) \ (DOMAIN page_table) :
           LET r == fetch_page(BM, p) IN
           /\ r.err \in {"Ok", "NoFreeBuffer"}
           /\ (r.err = "NoFreeBuffer") = AllPinned

\* A fetch of a page that is not resident has just failed on a pool of several frames.
C8_Witness ==
    /\ last.op = "fetch_page"
    /\ ~last.hit
    /\ last.err = "NoFreeBuffer"
    /\ pool_size_of(buffers) >= 2
    /\ last.before.pinned = pool_size_of(buffers)

\* C9: after flush() has returned Ok no frame is dirty and, the caller having set
\* is_dirty after each of its writes, the backing store holds the bytes most recently
\* written to every page, resident or evicted; a fresh BufferPoolManager of any size
\* over the same store fetches those bytes.
C9_FlushPersistsEverything ==
    (last.op = "flush") =>
        /\ last.err = "Ok"
        /\ \A f \in DOMAIN buffers : ~buffers[f].buffer.is_dirty
        /\ \A p \in DOMAIN written :
               /\ heap_buffer[p] = written[p]
               /\ \A pool_size \in 1..PoolFrames :
                      LET r == fetch_page(FreshBM(pool_size), p) IN
                      /\ r.err = "Ok"
                      /\ page_of(r.bm, r.buffer) = written[p]

\* A flush has just brought a stale store up to date while a written page was evicted.
C9_Witness ==
    /\ last.op = "flush"
    /\ last.err = "Ok"
    /\ last.before.stale # {}
    /\ \E p \in DOMAIN written : p \notin DOMAIN page_table /\ written[p] \in PageData

-----------------------------------------------------------------------------
(* The codec *)

\* The elements of t from the n-th on.
From(t, n) == SubSeq(t, n, Len(t))

\* C10: memcmpable::decode applied to encode(s) yields s and consumes exactly the
\* bytes encode produced, the empty string and the lengths that are multiples of 8
\* included; on encode(s1) ++ encode(s2) ++ ... successive decode calls return s1,
\* s2, ... in order and leave the input empty, and tuple::decode(tuple::encode(t)) = t.
C10_DecodeInvertsEncode ==
    /\ last.err # "Panic"
    /\ \A i \in 1..Len(codec.elems) :
           LET e == memcmpable_encode(codec.elems[i], <<>>)
               d == memcmpable_decode(e \o codec.enc, <<>>)
           IN  /\ d # Panic
               /\ d.dst = codec.elems[i]
               /\ d.src = codec.enc
    /\ codec.enc = tuple_encode(codec.elems, <<>>)
    /\ tuple_decode(codec.enc, <<>>) = [elems |-> codec.elems]
    /\ codec.decoding =>
           LET n == Len(codec.dec) IN
           /\ n <= Len(codec.elems)
           /\ codec.dec = SubSeq(codec.elems, 1, n)
           /\ codec.rest = tuple_encode(From(codec.elems, n + 1), <<>>)
           /\ codec.rest = <<>> => codec.dec = codec.elems

\* A string of 8 bytes and the empty string have been encoded and decoded in turn.
C10_Witness ==
    /\ codec.decoding
    /\ codec.rest = <<>>
    /\ Len(codec.dec) = 2
    /\ Len(codec.dec[1]) = 8
    /\ codec.dec[2] = <<>>

\* C11: comparing tuple::encode(a) with tuple::encode(b) byte by byte gives the
\* result of comparing the tuples a and b element by element, each element as a
\* byte string: also when an element or a tuple is a proper prefix of the other,
\* when elements hold zero bytes, and when their lengths are multiples of 8.
C11_EncodingKeepsOrder ==
    /\ codec.enc_left = tuple_encode(codec.left, <<>>)
    /\ codec.enc_right = tuple_encode(codec.right, <<>>)
    /\ SeqCmp(codec.enc_left, codec.enc_right) = TupleCmp(codec.left, codec.right)

\* Eight zero bytes followed by an empty element are below nine zero bytes.
C11_Witness ==
    /\ codec.left = <<Fill(0, 8), <<>>>>
    /\ codec.right = <<Fill(0, 9)>>
    /\ TupleCmp(codec.left, codec.right) = "Less"
    /\ SeqCmp(codec.enc_left, codec.enc_right) = "Less"

\* C12: for every input length, 0 and the multiples of 8 included, encoded_size of
\* the length is the number of bytes memcmpable::encode appends to dst for an input
\* of that length.
C12_EncodedSizeIsEmittedLength ==
    \A i \in 1..Len(codec.elems) :
        LET before == tuple_encode(SubSeq(codec.elems, 1, i - 1), <<>>)
            after == memcmpable_encode(codec.elems[i], before)
        IN  Len(after) - Len(before) = encoded_size(Len(codec.elems[i]))

\* C13: after initialize and any sequence of insert (followed by the copy of the
\* slot's bytes), remove and resize at valid indices, every slot reads back at its
\* logical index exactly the bytes last written into it, slots of length zero and
\* slots regrown after a resize to zero included; no call panics.
C13_SlotsKeepTheirBytes ==
    /\ last.err # "Panic"
    /\ slotted.s.num_slots = Len(slotted.want)
    /\ \A index \in 0..(slotted.s.num_slots - 1) :
           Slotted_index(slotted.s, index) = [bytes |-> slotted.want[index + 1]]

-----------------------------------------------------------------------------
(* The shape of the tree *)

\* C14: the leaves form one doubly-linked chain: the leftmost leaf has no prev, the
\* rightmost no next; the leaf named by N.prev names N as its next and holds only
\* keys below those of N; following next from the leftmost leaf visits every leaf
\* and every stored key once, in ascending order, and following prev from the
\* rightmost leaf visits the same keys in descending order.
C14_LeavesFormOneChain ==
    tree # NoTree =>
        LET first == LeftmostLeaf(RootPageId)
            final == RightmostLeaf(RootPageId)
            forth == ChainNext(first, Cardinality(LeafPages) + 1)
            back == ChainPrev(final, Cardinality(LeafPages) + 1)
            keys == ChainKeys(forth)
        IN  /\ TreePages[first].prev_page_id = INVALID_PAGE_ID
            /\ TreePages[final].next_page_id = INVALID_PAGE_ID
            /\ \A n \in LeafPages :
                   /\ TreePages[n].prev_page_id = INVALID_PAGE_ID => n = first
                   /\ TreePages[n].next_page_id = INVALID_PAGE_ID => n = final
                   /\ n # first =>
                          LET l == TreePages[n].prev_page_id IN
                          /\ l \in LeafPages
                          /\ TreePages[l].next_page_id = n
                          /\ \A i \in 1..Len(LeafKeys(l)), j \in 1..Len(LeafKeys(n)) :
                                 BytesCmp(LeafKeys(l)[i], LeafKeys(n)[j]) = "Less"
                   /\ n # final =>
                          /\ TreePages[n].next_page_id \in LeafPages
                          /\ TreePages[TreePages[n].next_page_id].prev_page_id = n
            /\ Len(forth) = Cardinality(LeafPages)
            /\ {forth[i] : i \in 1..Len(forth)} = LeafPages
            /\ back = Reverse(forth)
            /\ Len(keys) = Cardinality(DOMAIN stored)
            /\ {keys[i] : i \in 1..Len(keys)} = DOMAIN stored
            /\ \A i \in 1..(Len(keys) - 1) : BytesCmp(keys[i], keys[i + 1]) = "Less"
            /\ ChainKeysDescending(back) = Reverse(keys)

\* Four leaves in a chain after a split of a leaf that had a previous leaf.
C14_Witness ==
    /\ tree # NoTree
    /\ Cardinality(LeafPages) >= 4
    /\ Len(ChainNext(LeftmostLeaf(RootPageId), 5)) >= 4
    /\ \E n \in LeafPages :
           /\ TreePages[n].prev_page_id # INVALID_PAGE_ID
           /\ TreePages[n].prev_page_id > n
           /\ TreePages[TreePages[n].prev_page_id].prev_page_id # INVALID_PAGE_ID

\* The leaf created by the step, when the step is a leaf split.
NewLeaf == CHOOSE p \in LeafPages' \ LeafPages : TRUE

LeafSplitStep ==
    /\ tree # NoTree
    /\ tree' = tree
    /\ Cardinality(LeafPages') = Cardinality(LeafPages) + 1

\* 2 * free_space < capacity for the leaf of page p after the step
HalfFullAfter(p) ==
    2 * (LeafCapacity - SumLen(TreePages'[p].slots)
             - PointerSize * Len(TreePages'[p].slots)) < LeafCapacity

C16_AllLeavesAtOneDepth ==
    [][tree' # NoTree =>
          /\ TreeLeafDepths' = {TreeHeight'}
          /\ tree # NoTree /\ (TreeHeight' # TreeHeight \/ RootPageId' # RootPageId) =>
                 LET root == TreePages'[RootPageId'] IN
                 /\ TreeHeight' = TreeHeight + 1
                 /\ RootPageId' \notin DOMAIN TreePages
                 /\ root.node_type = NODE_TYPE_BRANCH
                 /\ num_pairs(root) = 1
                 /\ root.right_child = RootPageId
                 /\ child_at(root, 0) \notin DOMAIN TreePages]_vars

\* A tree of three levels whose five leaves all lie at depth 3.
C16_Witness ==
    /\ tree # NoTree
    /\ TreeHeight = 3
    /\ TreeLeafDepths = {3}
    /\ Cardinality(LeafPages) >= 4

\* C17: BTree::create allocates exactly two pages, the meta page first and then
\* the root, an empty leaf without neighbours that the meta page records as root;
\* no other page changes.  On an empty store the first tree has meta_page_id 0 and
\* its root is page 1, and a tree created right after it has meta_page_id 2.
C17_CreateAllocatesMetaThenRoot ==
    [][last'.op = "create" /\ last'.err = "Ok" =>
          /\ next_page_id' = next_page_id + 2
          /\ tree'.meta_page_id = next_page_id
          /\ TreePages'[next_page_id] = MetaPage(next_page_id + 1)
          /\ TreePages'[next_page_id + 1] = leaf_initialize
          /\ \A p \in DOMAIN TreePages : TreePages'[p] = TreePages[p]
          /\ next_page_id = 0 => tree'.meta_page_id = 0 /\ RootPageId' = 1
          /\ tree # NoTree /\ last.op = "create" /\ last.err = "Ok" =>
                 tree'.meta_page_id = tree.meta_page_id + 2]_vars

\* The second tree of a store, created right after the first.
C17_Witness ==
    /\ tree # NoTree
    /\ last.op = "create"
    /\ last.err = "Ok"
    /\ tree.meta_page_id = 2
    /\ RootPageId = 3
    /\ TreePages[0] = MetaPage(1)
    /\ TreePages[1] = leaf_initialize
    /\ next_page_id = 4

-----------------------------------------------------------------------------
(* The disk manager *)

\* C18: read_page_data(p) returns exactly the bytes of the most recent
\* write_page_data(p), whatever was written to other page ids in between; and
\* allocate_page returns consecutive ids from the initial next_page_id on and
\* writes nothing.
C18_ReadReturnsLastWrite ==
    /\ \A p \in 0..(DiskPages - 1) :
           read_page_data(heap_buffer, p) = [data |-> written.data[p]]
    /\ last.op = "read" /\ last.err = "Ok" => last.data = written.data[last.page_id]
    /\ \A i \in 1..Len(written.allocated) : written.allocated[i] = written.first + i - 1
    /\ next_page_id = written.first + Len(written.allocated)
    /\ last.op = "allocate" => last.page_id = next_page_id - 1

\* Page 0 is read back after it was written twice and page 1 once, ids allocated.
C18_Witness ==
    /\ last.op = "read"
    /\ last.err = "Ok"
    /\ last.page_id = 0
    /\ last.data = World
    /\ heap_buffer[1] = Hello
    /\ heap_buffer[2] = Hello
    /\ written.allocated = <<1, 2>>

-----------------------------------------------------------------------------
(* The query executors *)

\* The keys of the set S in ascending order.
RECURSIVE SortedKeys(_)
SortedKeys(S) ==
    IF S = {} THEN <<>>
    ELSE LET k == CHOOSE k \in S : \A j \in S : TupleCmp(k, j) # "Greater"
         IN  <<k>> \o SortedKeys(S \ {k})

\* The longest prefix of the keys all of which pass the while-condition.
RECURSIVE WhilePrefix(_, _)
WhilePrefix(keys, while_cond) ==
    IF keys = <<>> \/ ~while_eval(while_cond, Head(keys)) THEN <<>>
    ELSE <<Head(keys)>> \o WhilePrefix(Tail(keys), while_cond)

\* The records of the keys that satisfy the filter condition, in their order.
RECURSIVE Filtered(_, _)
Filtered(keys, cond) ==
    IF keys = <<>> THEN <<>>
    ELSE (IF bool_eval(cond, stored[Head(keys)]) THEN <<stored[Head(keys)]>> ELSE <<>>)
             \o Filtered(Tail(keys), cond)

\* The rows the running query is to yield.
ExpectedRows ==
    LET from == {k \in DOMAIN stored :
                    exec.search_mode.kind = "Key" =>
                        TupleCmp(k, exec.search_mode.tuple) # "Less"}
    IN  Filtered(WhilePrefix(SortedKeys(from), exec.while_cond), exec.cond)

\* C19: a Filter over a SeqScan started at key q with a while-condition yields, in
\* ascending key order, exactly the rows whose key is >= q, that come before the
\* first row whose key fails the while-condition, and that satisfy the filter
\* condition; at the first row that fails the while-condition it returns None,
\* also when later rows would pass.
C19_FilterOverSeqScanYields ==
    exec # None =>
        /\ last.err = "Ok"
        /\ Len(exec.out) <= Len(ExpectedRows)
        /\ exec.out = SubSeq(ExpectedRows, 1, Len(exec.out))
        /\ exec.done => exec.out = ExpectedRows

\* A scan from the second of the keys, while the key is below the fourth: it
\* skipped the second row, which fails the filter, yielded the third and returned
\* None at the fourth, although the fifth row satisfies the filter.
C19_Witness ==
    /\ exec # None
    /\ exec.done
    /\ exec.search_mode = TupleKey(<<LongKey(119)>>)
    /\ exec.while_cond = [op |-> "Lt", other |-> <<LongKey(121)>>]
    /\ exec.cond.op = "Lt"
    /\ DOMAIN stored = {<<LongKey(119)>>, <<LongKey(120)>>, <<LongKey(121)>>, <<LongKey(122)>>}
    /\ exec.out = <<<<LongKey(120), <<66>>>>>>
    /\ bool_eval(exec.cond, stored[<<LongKey(122)>>])
    /\ ~bool_eval(exec.cond, stored[<<LongKey(119)>>])

\* C20: after any sequence of inserts of distinct keys, in every branch of the
\* tree with slots (k_0, p_0) ... (k_{N-1}, p_{N-1}) and right_child r the slot keys
\* are strictly ascending, every key stored below p_i is less than k_i and, for
\* i > 0, at least k_{i-1}, every key stored below r is at least k_{N-1}, and a
\* search key equal to the separator k_i is routed to the child after slot i.
C20_SeparatorsBoundSubtrees ==
    tree # NoTree =>
        \A p \in BranchesFrom(RootPageId) :
            LET branch == TreePages[p]
                N == num_pairs(branch)
                k == [i \in 0..(N - 1) |-> branch.slots[i + 1].key]
            IN  /\ \A i \in 0..(N - 2) : BytesCmp(k[i], k[i + 1]) = "Less"
                /\ \A i \in 0..(N - 1) :
                       \A key \in SubtreeKeys(child_at(branch, i)) :
                          /\ BytesCmp(key, k[i]) = "Less"
                          /\ i > 0 => BytesCmp(key, k[i - 1]) # "Less"
                /\ N > 0 =>
                       \A key \in SubtreeKeys(branch.right_child) :
                          BytesCmp(key, k[N - 1]) # "Less"
                /\ \A i \in 0..(N - 1) :
                       search_child(branch, k[i]) = child_at(branch, i + 1)

\* A tree of three levels with a branch of two separators, each stored as the
\* first key of the leaf below the child after its slot.
C20_Witness ==
    /\ tree # NoTree
    /\ TreeHeight = 3
    /\ \E p \in BranchesFrom(RootPageId) :
          /\ num_pairs(TreePages[p]) >= 2
          /\ \A i \in 1..num_pairs(TreePages[p]) :
                 TreePages[p].slots[i].key \in SubtreeKeys(child_at(TreePages[p], i))

-----------------------------------------------------------------------------
(* Splits of a single node *)

\* The pairs of the new node followed by those of the original one.
SplitPairs == nodes.split.result.dest.slots \o nodes.split.result.self.slots

\* C21: Leaf::split_insert on a leaf that cannot hold the new pair leaves the
\* pairs of the new (left) leaf followed by the pairs of the original leaf equal
\* to the original pairs plus the new pair, each once, in strictly ascending key
\* order; both leaves are non-empty; the promoted key is the first key of the
\* original leaf and is greater than every key of the new leaf.
C21_LeafSplitKeepsPairs ==
    nodes # None /\ nodes.kind = "leaf" /\ nodes.split # None =>
        /\ nodes.split.result # Panic
        /\ {SplitPairs[i] : i \in 1..Len(SplitPairs)} =
               {nodes.split.before.slots[i] : i \in 1..num_pairs(nodes.split.before)}
                   \cup {LeafPair(nodes.split.key, nodes.split.value)}
        /\ Len(SplitPairs) = num_pairs(nodes.split.before) + 1
        /\ \A i \in 1..(Len(SplitPairs) - 1) :
               BytesCmp(SplitPairs[i].key, SplitPairs[i + 1].key) = "Less"
        /\ num_pairs(nodes.split.result.dest) > 0
        /\ num_pairs(nodes.split.result.self) > 0
        /\ nodes.split.result.key = nodes.split.result.self.slots[1].key
        /\ \A i \in 1..num_pairs(nodes.split.result.dest) :
               BytesCmp(nodes.split.result.dest.slots[i].key, nodes.split.result.key) = "Less"

\* A split of a leaf of at least four pairs in which the new pair went into the
\* new leaf, between pairs moved there, and pairs were moved after it.
C21_Witness ==
    /\ nodes # None
    /\ nodes.kind = "leaf"
    /\ nodes.split # None
    /\ nodes.split.result # Panic
    /\ num_pairs(nodes.split.before) >= 4
    /\ \E i \in 2..(num_pairs(nodes.split.result.dest) - 1) :
          nodes.split.result.dest.slots[i].key = nodes.split.key
    /\ num_pairs(nodes.split.result.self) >= 2

\* The branch before the split with the new entry at its sorted position, whatever
\* its size.
Unsplit ==
    LET before == nodes.split.before
        index == search_slot_id(before, nodes.split.key).idx
    IN  [before EXCEPT !.slots = SubSeq(@, 1, index)
                                     \o <<BranchPair(nodes.split.key, nodes.split.value)>>
                                     \o SubSeq(@, index + 1, Len(@))]

\* Search keys: the keys of the specification, shorter and longer ones, and first
\* bytes below and above theirs.
SplitProbes ==
    {NodeKey(b, pad) : b \in 0..(NodeKeyBytes + 1),
                       pad \in {0, 1, MidPad, MidPad + 1, BranchMaxPad - 1, BranchMaxPad,
                                BranchMaxPad + 1}}

\* C22: Branch::split_insert preserves routing: every key q is routed, through the
\* new left branch when q is below the promoted key and through the original
\* branch otherwise, to the child the unsplit branch with the new entry at its
\* sorted position routes it to; the promoted key is the key of the last pair
\* moved to the new branch, the page of that pair is the right_child of the new
\* branch, and the original branch keeps its right_child.
C22_BranchSplitKeepsRouting ==
    nodes # None /\ nodes.kind = "branch" /\ nodes.split # None =>
        /\ nodes.split.result # Panic
        /\ \A q \in SplitProbes :
               search_child(Unsplit, q) =
                   IF BytesCmp(q, nodes.split.result.key) = "Less"
                   THEN search_child(nodes.split.result.dest, q)
                   ELSE search_child(nodes.split.result.self, q)
        /\ Unsplit.slots =
               nodes.split.result.dest.slots
                   \o <<BranchPair(nodes.split.result.key,
                                   nodes.split.result.dest.right_child)>>
                   \o nodes.split.result.self.slots
        /\ nodes.split.result.self.right_child = nodes.split.before.right_child

\* A split of a branch after which the new branch has slots, the promoted key is
\* not the new key, and the new key lies in the original branch after its first slot.
C22_Witness ==
    /\ nodes # None
    /\ nodes.kind = "branch"
    /\ nodes.split # None
    /\ nodes.split.result # Panic
    /\ num_pairs(nodes.split.result.dest) >= 2
    /\ nodes.split.result.key # nodes.split.key
    /\ \E i \in 2..num_pairs(nodes.split.result.self) :
          nodes.split.result.self.slots[i].key = nodes.split.key

\* C23: when every pair of the node and the new pair are of at most max_pair_size
\* bytes, no assertion or expect in Leaf or Branch split_insert and transfer
\* fails: every transfer into the new node fits, the new pair fits in the node it
\* is put in, the original node is not indexed at slot 0 while empty, and the new
\* branch holds a pair when fill_right_child pops it.
C23_SplitNeverPanics ==
    nodes # None =>
        /\ ~nodes.panicked
        /\ \A i \in 1..num_pairs(nodes.node) :
               nodes.node.slots[i].len <= IF nodes.kind = "leaf" THEN leaf_max_pair_size
                                          ELSE branch_max_pair_size
        /\ nodes.split # None =>
               /\ nodes.split.result # Panic
               /\ slotted_free_space(IF nodes.kind = "leaf" THEN LeafCapacity
                                     ELSE BranchCapacity,
                                     nodes.split.result.dest.slots) >= 0
               /\ slotted_free_space(IF nodes.kind = "leaf" THEN LeafCapacity
                                     ELSE BranchCapacity,
                                     nodes.split.result.self.slots) >= 0

\* A split of a branch filled to the last byte by two pairs of max_pair_size
\* bytes, by a new pair of max_pair_size bytes: the new branch took two pairs
\* before it was half full, and fill_right_child popped the second.
C23_Witness ==
    /\ nodes # None
    /\ nodes.kind = "branch"
    /\ nodes.split # None
    /\ nodes.split.result # Panic
    /\ BranchPair(nodes.split.key, nodes.split.value).len = branch_max_pair_size
    /\ num_pairs(nodes.split.before) = 2
    /\ \A i \in 1..2 : nodes.split.before.slots[i].len = branch_max_pair_size
    /\ slotted_free_space(BranchCapacity, nodes.split.before.slots) = 0
    /\ num_pairs(nodes.split.result.dest) = 1
    /\ num_pairs(nodes.split.result.self) = 1

-----------------------------------------------------------------------------
(* The root of the tree *)

SlotKeys(n) == {n.slots[i].key : i \in 1..num_pairs(n)}

\* The step split the node in page p: pairs have left it.
SplitIn(p) == \E old \in {TreePages[p]} : ~(SlotKeys(old) \subseteq SlotKeys(TreePages'[p]))

\* C24: when the recursion of an insert returns a promoted key and a new page from
\* the root, insert creates a new root, a branch with exactly one slot (promoted
\* key -> the new left page) and right_child the old root, stores its id in the
\* meta page and marks the meta page dirty; root_page_id changes in no other case
\* and the meta_page_id of the tree never changes.
C24_NewRootOnRootSplit ==
    [][tree # NoTree =>
          /\ tree' = tree
          /\ RootPageId' # RootPageId => SplitIn(RootPageId) /\ last'.err = "Ok"
          /\ SplitIn(RootPageId) /\ last'.err = "Ok" =>
                 \E old \in {RootPageId} :
                    LET root == TreePages'[RootPageId'] IN
                    /\ RootPageId' \notin DOMAIN TreePages
                    /\ root.node_type = NODE_TYPE_BRANCH
                    /\ num_pairs(root) = 1
                    /\ root.right_child = old
                    /\ child_at(root, 0) \notin DOMAIN TreePages
                    /\ child_at(root, 0) # RootPageId'
                    /\ TreePages'[child_at(root, 0)].node_type = TreePages[old].node_type
                    /\ SlotKeys(TreePages'[old]) # {}
                    /\ \A k \in SlotKeys(TreePages'[old]) :
                           BytesCmp(k, root.slots[1].key) # "Less"
                    /\ \A k \in SlotKeys(TreePages'[child_at(root, 0)]) :
                           BytesCmp(k, root.slots[1].key) = "Less"
                    /\ tree.meta_page_id \in DOMAIN page_table'
                    /\ buffers'[page_table'[tree.meta_page_id]].buffer.is_dirty]_vars

\* The insert just made split a branch root: the tree has three levels and the
\* new root one slot, and the meta page is dirty.
C24_Witness ==
    /\ tree # NoTree
    /\ last.op = "insert"
    /\ last.err = "Ok"
    /\ TreeHeight = 3
    /\ num_pairs(TreePages[RootPageId]) = 1
    /\ RootPageId = next_page_id - 1
    /\ tree.meta_page_id \in DOMAIN page_table
    /\ buffers[page_table[tree.meta_page_id]].buffer.is_dirty

-----------------------------------------------------------------------------
(* The pages an insert holds *)

\* C25: during the descent of an insert the handle of a parent page is released
\* before the child page is fetched, and the parent is fetched again only when a
\* split comes up from the child: an insert holds no ancestor pinned across a
\* fetch.  So an insert into a tree of two or more levels that allocates no page
\* has at no time more than two frames pinned, the meta page and one node.
C25_ParentReleasedBeforeChild ==
    [][/\ tree # NoTree
       /\ last'.op = "insert"
       /\ TreeHeight >= 2
       /\ next_page_id' = next_page_id
       => last'.peak <= 2]_vars

\* The handles the caller has on frame f: those it holds and that of its Iter.
HandlesOn(f) ==
    Cardinality({i \in DOMAIN held : held[i] = f})
        + (IF iter # NoIter /\ iter.buffer = f THEN 1 ELSE 0)

\* C26: between calls an open Iter holds exactly one buffer handle, to the leaf it
\* points at, and so keeps exactly one frame pinned; when it moves to the next
\* leaf the handle of the leaf it leaves is released and that frame can be
\* evicted again.
C26_IterPinsOneLeaf ==
    [][/\ \A f \in DOMAIN buffers' : buffers'[f].rc = HandlesOn(f)'
       /\ iter' # NoIter =>
              buffers'[iter'.buffer].buffer.page.node_type = NODE_TYPE_LEAF
       /\ iter # NoIter /\ iter' # NoIter /\ iter'.buffer # iter.buffer =>
              /\ buffers'[iter.buffer].rc = buffers[iter.buffer].rc - 1
              /\ (\A i \in DOMAIN held : held[i] # iter.buffer) =>
                     buffers'[iter.buffer].rc = 0
              /\ buffers'[iter'.buffer].buffer.page_id =
                     buffers[iter.buffer].buffer.page.next_page_id]_vars

\* The Iter has just moved to the next leaf: the frame of the leaf it left is
\* still resident and no longer pinned.
C26_Witness ==
    /\ iter # NoIter
    /\ last.op = "next"
    /\ last.err = "Ok"
    /\ iter.slot_id = 0
    /\ buffers[iter.buffer].rc = 1
    /\ LET prev == buffers[iter.buffer].buffer.page.prev_page_id IN
       /\ prev # INVALID_PAGE_ID
       /\ prev \in DOMAIN page_table
       /\ buffers[page_table[prev]].rc = 0
       /\ last.value.key \in SlotKeys(buffers[page_table[prev]].buffer.page)

-----------------------------------------------------------------------------
(* Calls of the buffer pool manager *)

\* C27: fetch_page of a resident page reads and writes no page of the disk and
\* evicts nothing: it changes only the usage counter of the frame of the page, by
\* plus one, and returns a handle that aliases the buffer of every other handle
\* to the page, so that bytes written through one handle are seen through the
\* others.
C27_FetchOfResidentPage ==
    [][/\ last'.op = "fetch_page" /\ last'.hit =>
              /\ last'.err = "Ok"
              /\ last'.buffer = page_table[last'.page_id]
              /\ heap_buffer' = heap_buffer
              /\ page_table' = page_table
              /\ next_victim_id' = next_victim_id
              /\ next_page_id' = next_page_id
              /\ buffers' = [buffers EXCEPT ![last'.buffer].usage_count = @ + 1,
                                            ![last'.buffer].rc = @ + 1]
              /\ Cardinality({i \in DOMAIN held' : held'[i] = last'.buffer})
                     = buffers'[last'.buffer].rc
       /\ \A i \in DOMAIN held' :
              /\ buffers'[held'[i]].buffer.page = written'[buffers'[held'[i]].buffer.page_id]
              /\ \A j \in DOMAIN held' :
                     buffers'[held'[i]].buffer.page_id = buffers'[held'[j]].buffer.page_id
                         => held'[i] = held'[j]]_vars

\* A fetch of a resident page to which the caller holds a handle already, and
\* through which it wrote what the disk does not hold yet.
C27_Witness ==
    /\ last.op = "fetch_page"
    /\ last.hit
    /\ last.err = "Ok"
    /\ buffers[last.buffer].rc = 2
    /\ Cardinality({i \in DOMAIN held : held[i] = last.buffer}) = 2
    /\ buffers[last.buffer].buffer.page = World
    /\ heap_buffer[last.page_id] # World
    /\ buffers[last.buffer].usage_count = 2

\* The hand of the clock reaches frame f for the k-th time (k = 0, 1, ...) after
\* ReachedAt(f, k) moves from next_victim_id.
ReachedAt(f, k) ==
    ((f - next_victim_id) % pool_size_of(buffers)) + k * pool_size_of(buffers)

\* An unpinned frame is found with counter zero when the hand reaches it for the
\* usage_count-th time.
ZeroAt(f) == ReachedAt(f, buffers[f].usage_count)

Unpinned == {f \in DOMAIN buffers : buffers[f].rc = 0}

\* The unpinned frame the hand finds at zero first.
ClockVictim == CHOOSE f \in Unpinned : \A g \in Unpinned : ZeroAt(f) <= ZeroAt(g)

\* How often the hand passes frame f before it stops at the victim.
Passes(f) == Cardinality({k \in 0..MaxUsage : ReachedAt(f, k) < ZeroAt(ClockVictim)})

\* C28: evict scans the frames cyclically from next_victim_id: it decrements by one
\* the usage counter of every unpinned frame with a positive counter each time it
\* passes it, leaves the counters of pinned frames unchanged, returns the first
\* frame it reaches whose counter is zero and leaves next_victim_id at that
\* victim; no usage counter becomes negative.
C28_EvictIsClockSweep ==
    [][/\ \A f \in DOMAIN buffers' : buffers'[f].usage_count >= 0
       /\ last'.op \in {"fetch_page", "create_page"} /\ ~last'.hit =>
              /\ \A f \in DOMAIN buffers :
                     buffers[f].rc > 0 => buffers'[f].usage_count = buffers[f].usage_count
              /\ Unpinned # {} =>
                     /\ last'.err = "Ok"
                     /\ last'.buffer = ClockVictim
                     /\ next_victim_id' = ClockVictim
                     /\ \A f \in Unpinned \ {ClockVictim} :
                            buffers'[f].usage_count = buffers[f].usage_count - Passes(f)
                     /\ Passes(ClockVictim) = buffers[ClockVictim].usage_count]_vars

\* A call has just taken a victim; the hand passed a pinned frame, whose counter
\* is still 2, and left another unpinned frame that holds a page at counter 0.
C28_Witness ==
    /\ last.op \in {"fetch_page", "create_page"}
    /\ last.err = "Ok"
    /\ ~last.hit
    /\ next_victim_id = last.buffer
    /\ \E f, g \in DOMAIN buffers :
          /\ f # last.buffer
          /\ g # last.buffer
          /\ buffers[f].rc > 0
          /\ buffers[f].usage_count = 2
          /\ buffers[g].rc = 0
          /\ buffers[g].usage_count = 0
          /\ buffers[g].buffer.page_id # INVALID_PAGE_ID

\* C29: a create_page that returns Ok hands out a frame whose page is all zeros,
\* marked dirty, with usage counter 1, under a page id that was never handed out
\* before and is one above the id of the previous successful create_page; a
\* create_page that fails with NoFreeBuffer consumes no page id and leaves the
\* page table as it was.
C29_CreatePageFreshAndZeroed ==
    [][/\ next_page_id' >= next_page_id
       /\ next_page_id' # next_page_id => last'.op = "create_page" /\ last'.err = "Ok"
       /\ last'.op = "create_page" /\ last'.err = "Ok" =>
              /\ last'.buffer \in DOMAIN buffers
              /\ Len(held') = Len(held) + 1
              /\ buffers'[last'.buffer].rc = 1
              /\ buffers'[last'.buffer].buffer.page = ZeroPage
              /\ buffers'[last'.buffer].buffer.is_dirty
              /\ buffers'[last'.buffer].usage_count = 1
              /\ buffers'[last'.buffer].buffer.page_id = next_page_id
              /\ next_page_id' = next_page_id + 1
              /\ next_page_id \notin DOMAIN written
              /\ next_page_id \notin DOMAIN page_table
              /\ \A f \in DOMAIN buffers : buffers[f].buffer.page_id # next_page_id
              /\ page_table'[next_page_id] = last'.buffer
       /\ last'.op = "create_page" /\ last'.err = "NoFreeBuffer" =>
              /\ next_page_id' = next_page_id
              /\ page_table' = page_table
              /\ held' = held]_vars

\* The only frame of a pool held a page with written bytes, which went to the
\* disk when a later create_page took the frame for the page it returned.
C29_Witness ==
    /\ last.op = "create_page"
    /\ last.err = "Ok"
    /\ pool_size_of(buffers) = 1
    /\ next_page_id >= 2
    /\ \E p \in DOMAIN written :
          /\ p \notin DOMAIN page_table
          /\ written[p] # ZeroPage
          /\ heap_buffer[p] = written[p]

------------------------------------------------------------------------------
(* Calls that return None *)

\* C30: Slotted::insert(index, len) returns None exactly when free_space() is less
\* than size_of(Pointer) + len; when Slotted::insert or Slotted::resize returns
\* None, alone or as the body of Leaf::insert and Branch::insert (the insert
\* followed by the copy of the pair's bytes), num_slots, free_space_offset, the
\* pointer array and the data bytes are exactly as before the call.
C30_NoneLeavesSlottedUntouched ==
    [][/\ last'.op = "insert" =>
              (last'.err = "None" <=>
                   Slotted_free_space(slotted.s) < PointerSize + last'.len)
       /\ last'.op \in {"insert", "resize"} /\ last'.err = "None" =>
              /\ slotted'.s.num_slots = slotted.s.num_slots
              /\ slotted'.s.free_space_offset = slotted.s.free_space_offset
              /\ slotted'.s.body = slotted.s.body
              /\ slotted'.want = slotted.want
       /\ last'.op = "insert" /\ last'.err = "Ok" =>
              /\ slotted'.s.num_slots = slotted.s.num_slots + 1
              /\ slotted'.s.free_space_offset = slotted.s.free_space_offset - last'.len]_vars

\* An insert has just returned None for want of one byte, in a Slotted that holds
\* a slot with data.
C30_Witness ==
    /\ last.op = "insert"
    /\ last.err = "None"
    /\ Slotted_free_space(slotted.s) = PointerSize + last.len - 1
    /\ slotted.s.num_slots >= 1
    /\ \E index \in 0..(slotted.s.num_slots - 1) : pointer_at(slotted.s, index).len > 0

------------------------------------------------------------------------------
(* The layout of the slotted region *)

RECURSIVE SumSlotLens(_, _)
SumSlotLens(s, n) ==
    IF n = 0 THEN 0 ELSE pointer_at(s, n - 1).len + SumSlotLens(s, n - 1)

SlottedLayout(s) ==
    /\ pointers_size(s) <= s.free_space_offset
    /\ s.free_space_offset <= Len(s.body)
    /\ SumSlotLens(s, s.num_slots) = Len(s.body) - s.free_space_offset
    /\ \A index \in 0..(s.num_slots - 1) :
          /\ s.free_space_offset <= pointer_at(s, index).offset
          /\ pointer_at(s, index).offset + pointer_at(s, index).len <= Len(s.body)

\* C31: after initialize and any sequence of insert, remove and resize at valid
\* indices, successful or not, the pointer array ends at or below
\* free_space_offset, which is at most the capacity; the lengths of the slots sum
\* to capacity - free_space_offset; the bytes of every slot lie between
\* free_space_offset and the capacity; and remove(index) raises free_space() by
\* the length of the removed slot plus size_of(Pointer).
C31_SlottedLayoutKept ==
    /\ SlottedLayout(slotted.s)
    /\ [][/\ SlottedLayout(slotted'.s)
          /\ last'.err # "Panic"
          /\ last'.op = "remove" =>
                 Slotted_free_space(slotted'.s) =
                     Slotted_free_space(slotted.s)
                     + pointer_at(slotted.s, last'.index).len + PointerSize]_vars

\* A slot has just been removed and the slot that is left, two bytes long, reads
\* its bytes at the end of the body.
C31_Witness ==
    /\ last.op = "remove"
    /\ last.err = "Ok"
    /\ slotted.s.num_slots = 1
    /\ pointer_at(slotted.s, 0) = [offset |-> SlotCapacity - 2, len |-> 2]
    /\ Slotted_index(slotted.s, 0) = [bytes |-> <<2, 3>>]
    /\ slotted.want = <<(<<2, 3>>)>>

------------------------------------------------------------------------------
(* Dirty flags *)

Resident == {f \in DOMAIN buffers : buffers[f].buffer.page_id # INVALID_PAGE_ID}

OnDisk(f) == heap_buffer[buffers[f].buffer.page_id]

------------------------------------------------------------------------------
(* The groups of the memcmpable encoding *)

\* The vector enc is, group by group, what the rule gives for the elements: a
\* group emitted with 8 or more bytes of the element left carries 8 bytes and the
\* terminator ESCAPE_LENGTH, a group emitted with r < 8 bytes left carries them,
\* zeros up to 8 bytes and the terminator r, and ends the element.
RECURSIVE GroupsFollowRule(_, _, _)
GroupsFollowRule(enc, src, elems) ==
    IF Len(enc) < ESCAPE_LENGTH THEN FALSE
    ELSE IF Len(src) >= ESCAPE_LENGTH - 1
    THEN /\ SubSeq(enc, 1, ESCAPE_LENGTH - 1) = SubSeq(src, 1, ESCAPE_LENGTH - 1)
         /\ enc[ESCAPE_LENGTH] = ESCAPE_LENGTH
         /\ GroupsFollowRule(Drop(enc, ESCAPE_LENGTH), Drop(src, ESCAPE_LENGTH - 1), elems)
    ELSE /\ SubSeq(enc, 1, ESCAPE_LENGTH - 1) = src \o Zeros(ESCAPE_LENGTH - 1 - Len(src))
         /\ enc[ESCAPE_LENGTH] = Len(src)
         /\ IF elems = <<>> THEN Len(enc) = ESCAPE_LENGTH
            ELSE GroupsFollowRule(Drop(enc, ESCAPE_LENGTH), Head(elems), Tail(elems))

\* C33: memcmpable::encode emits, for each group of 9 bytes, the terminator 9 if
\* and only if 8 or more bytes of the input remained when the group was emitted;
\* otherwise it emits the r remaining bytes, zeros up to 8 bytes and the
\* terminator r, and that group is the last one of the element.
C33_TerminatorNineFromEightBytes ==
    IF codec.elems = <<>> THEN codec.enc = <<>>
    ELSE GroupsFollowRule(codec.enc, Head(codec.elems), Tail(codec.elems))

------------------------------------------------------------------------------
(* The pages an insert changes *)

\* C34: when the new pair fits in the leaf the key is routed to, insert changes
\* that leaf page only, by adding the pair at its sorted position: the meta page,
\* every branch, every other leaf and the prev and next links of all leaves are
\* as before, and no page is allocated.
C34_FittingInsertChangesOneLeaf ==
    [][tree # NoTree /\ last'.op = "insert" /\ last'.err = "Ok" =>
          \E target \in {RoutedLeaf(RootPageId, last'.key)} :
          \E leaf \in {LogicalPage(target)} :
          \E r \in {search_slot_id(leaf, last'.key)} :
          \E i \in {leaf_insert(leaf, r.idx, last'.key, last'.value)} :
              i # None /\ i # Panic =>
                  /\ next_page_id' = next_page_id
                  /\ \A p \in 0..(next_page_id - 1) :
                         p # target => LogicalPage(p)' = LogicalPage(p)
                  /\ LogicalPage(target)' = [leaf EXCEPT !.slots = i.node.slots]
                  /\ LogicalPage(target)' # leaf]_vars

\* An insert into a tree with a branch as its root has returned Ok with the meta
\* page, the root and one leaf as the most pages pinned at once: the pair went
\* into a leaf that has a neighbour.
C34_Witness ==
    /\ last.op = "insert"
    /\ last.err = "Ok"
    /\ last.peak = 3
    /\ LogicalPage(RootPageId).node_type = NODE_TYPE_BRANCH
    /\ \E target \in {RoutedLeaf(RootPageId, last.key)} :
          /\ last.key \in SlotKeys(LogicalPage(target))
          /\ LogicalPage(target).next_page_id # INVALID_PAGE_ID
          /\ LogicalPage(target).prev_page_id # INVALID_PAGE_ID

------------------------------------------------------------------------------
(* The frames an insert needs *)

\* Frames on which the caller holds a handle of its own or its Iter.
OutsideFrames == {f \in DOMAIN buffers : HandlesOn(f) > 0}

\* C35: during an insert into a tree of h levels the insert holds handles to at
\* most h + 3 pages at once (the meta page, one page per level of the path, the
\* previous leaf and the new leaf), so that never more than h + 3 frames beyond
\* those the caller holds are pinned; and an insert does not return NoFreeBuffer
\* when at least h + 3 frames carry no handle of the caller.
C35_InsertNeedsHeightPlusThree ==
    [][tree # NoTree /\ last'.op = "insert" =>
          /\ last'.peak <= TreeHeight + 3 + Cardinality(OutsideFrames)
          /\ pool_size_of(buffers) - Cardinality(OutsideFrames) >= TreeHeight + 3 =>
                 last'.err # "NoFreeBuffer"]_vars

\* An insert has split a leaf that has a previous leaf in a tree of two levels:
\* five frames were pinned at once, in a pool of five frames.
C35_Witness ==
    /\ last.op = "insert"
    /\ last.err = "Ok"
    /\ TreeHeight = 2
    /\ last.peak = TreeHeight + 3 + Cardinality(OutsideFrames)
    /\ pool_size_of(buffers) = last.peak

------------------------------------------------------------------------------
(* The pages a search holds *)

\* The leaf a search in the given mode descends to from page p.
RECURSIVE SearchLeaf(_, _)
SearchLeaf(p, search_mode) ==
    LET node == LogicalPage(p) IN
    IF node.node_type = NODE_TYPE_LEAF THEN p
    ELSE SearchLeaf(mode_child_page_id(search_mode, node), search_mode)

\* The search finds its position behind the last pair of a leaf that has a next
\* leaf, and Iter::advance moves to that leaf.
SearchMovesOn(search_mode) ==
    LET leaf == LogicalPage(SearchLeaf(RootPageId, search_mode)) IN
    /\ mode_tuple_slot_id(search_mode, leaf) = num_pairs(leaf)
    /\ leaf.next_page_id # INVALID_PAGE_ID

\* C36: BTree::search and Iter::next never hold handles to more than two pages
\* at once, whatever the height of the tree: the descent of a search holds one
\* page at a time (the meta page and every branch are dropped before the next
\* page is fetched), and only Iter::advance holds the leaf it is on while it
\* fetches the next leaf.  So beyond the frames the caller holds, a search that
\* stays on the leaf it descends to pins one frame, a search that moves on pins
\* two, and a next pins one frame besides the frame of its Iter.
C36_SearchHoldsOnePageAtATime ==
    [][tree # NoTree =>
          /\ last'.op = "search" =>
                 last'.peak <= Cardinality(OutsideFrames)
                               + (IF SearchMovesOn(last'.mode) THEN 2 ELSE 1)
          /\ last'.op = "next" =>
                 last'.peak <= Cardinality(OutsideFrames) + 1]_vars

\* A search in a tree of two levels has returned an Iter after it moved on to
\* the next leaf, the caller holding no page: two frames were pinned at most.
C36_Witness ==
    /\ last.op = "search"
    /\ last.err = "Ok"
    /\ held = <<>>
    /\ TreeHeight = 2
    /\ SearchMovesOn(last.mode)
    /\ last.peak = 2
    /\ iter # NoIter
    /\ iter.slot_id = 0
    /\ page_id_of(BM, iter.buffer) =
          LogicalPage(SearchLeaf(RootPageId, last.mode)).next_page_id

------------------------------------------------------------------------------
(* A scan with inserts in between *)

\* C37: when inserts into the tree are interleaved with the calls of next on an
\* open iterator, the iterator never yields a key smaller than one it has
\* yielded before, whether the inserts split the leaf the iterator is on or only
\* shift its slots.
C37_ScanNeverGoesBack ==
    \A i, j \in 1..Len(yielded) :
        i < j => BytesCmp(yielded[j], yielded[i]) # "Less"

------------------------------------------------------------------------------
(* The page table *)

\* C38: in every state the page table maps page ids to frames one to one, and
\* page_table[p] = f exactly when frame f has been loaded and the page_id of its
\* buffer is p: no page is resident in two frames and at most pool_size pages
\* are resident.
C38_PageTableMatchesFrames ==
    /\ \A p \in DOMAIN page_table :
          /\ page_table[p] \in DOMAIN buffers
          /\ buffers[page_table[p]].buffer.page_id = p
    /\ \A f \in DOMAIN buffers :
          buffers[f].buffer.page_id # INVALID_PAGE_ID =>
              /\ buffers[f].buffer.page_id \in DOMAIN page_table
              /\ page_table[buffers[f].buffer.page_id] = f
    /\ \A p, q \in DOMAIN page_table : page_table[p] = page_table[q] => p = q
    /\ \A f, g \in DOMAIN buffers :
          /\ buffers[f].buffer.page_id = buffers[g].buffer.page_id
          /\ buffers[f].buffer.page_id # INVALID_PAGE_ID
          => f = g
    /\ Cardinality(DOMAIN page_table) <= pool_size_of(buffers)

\* Every frame of a pool of two or more frames holds a page, and a fetch_page
\* has just brought a page back into a frame that held another page, which is no
\* longer in the page table.
C38_Witness ==
    /\ last.op = "fetch_page"
    /\ last.err = "Ok"
    /\ ~last.hit
    /\ pool_size_of(buffers) >= 2
    /\ Cardinality(DOMAIN page_table) = pool_size_of(buffers)
    /\ page_table[last.page_id] = last.buffer
    /\ \E p \in DOMAIN written : p \notin DOMAIN page_table

------------------------------------------------------------------------------
(* Termination of evict *)

\* C39: in a pool of one or more frames every call of evict returns after
\* finitely many iterations, a victim or None, whatever the usage counters, the
\* pinned frames and next_victim_id are; the call returns what the loop run as a
\* whole returns, and a call that returns None has changed no usage counter.
C39_EvictTerminates ==
    /\ <>last.done
    /\ [](last.done =>
            \E e \in {evict(last.frames, last.next_victim_id)} :
               /\ last.found = e.found
               /\ buffers = e.buffers
               /\ next_victim_id = e.next_victim_id
               /\ ~last.found =>
                      \A f \in DOMAIN buffers :
                          buffers[f].usage_count = last.frames[f].usage_count)

\* A call on a pool of PoolFrames frames, all pinned and with usage counters
\* between 1 and MaxUsage, has returned None.
C39_Witness ==
    /\ last.op = "evict"
    /\ last.done
    /\ ~last.found
    /\ pool_size_of(buffers) = PoolFrames
    /\ last.consecutive_pinned = PoolFrames
    /\ \E f, g \in DOMAIN buffers :
          buffers[f].usage_count = 1 /\ buffers[g].usage_count = MaxUsage

------------------------------------------------------------------------------
(* The result of binary_search_by *)

\* C40: on a strictly ascending vector binary_search_by returns Ok(i) exactly when
\* element i compares Equal to the target (and Ok whenever some element does);
\* otherwise it returns Err(i) with i in [0, n], every element before i comparing
\* Less and every element from i on comparing Greater.
C40_BinarySearchFindsOrInsertionPoint ==
    last.op = "binary_search_by" =>
        LET n == Len(last.a)
            c(i) == Ord_cmp(last.a[i + 1], last.target)
        IN  /\ last.ok <=> \E i \in 0..(n - 1) : c(i) = "Equal"
            /\ last.ok => last.idx \in 0..(n - 1) /\ c(last.idx) = "Equal"
            /\ ~last.ok =>
                  /\ last.idx \in 0..n
                  /\ \A i \in 0..(n - 1) :
                        c(i) = IF i < last.idx THEN "Less" ELSE "Greater"

\* The vector of the test of bsearch.rs searched for 6, which is between its
\* elements: Err(4).
C40_Witness ==
    /\ last.op = "binary_search_by"
    /\ last.a = <<1, 2, 3, 5, 8, 13, 21>>
    /\ last.target = 6
    /\ ~last.ok
    /\ last.idx = 4

\* The same vector searched for 8: Ok(4).
C40_WitnessFound ==
    /\ last.op = "binary_search_by"
    /\ last.a = <<1, 2, 3, 5, 8, 13, 21>>
    /\ last.target = 8
    /\ last.ok
    /\ last.idx = 4

====
